---- MODULE Spec2Model ----
(***************************************************************************)
(* Model of the CogMD renderer: the line diff engine (diff-engine.js) and  *)
(* the tab / eviction / session-persistence state machine (app.js).        *)
(*                                                                         *)
(* Conventions                                                             *)
(*  - JS arrays are TLA+ sequences; indices stored in records (oldIdx,     *)
(*    newIdx, LCS pairs) keep the 0-based values of the code, so line i of *)
(*    the code is element i + 1 of the sequence.                           *)
(*  - JS null / undefined for a tab id is Null (0): ids start at 1, and    *)
(*    the code itself treats 0 like null (data.activeTabId || ...).        *)
(*  - JS undefined for an op index is NoIdx (-1).                          *)
(***************************************************************************)
EXTENDS Integers, Sequences, FiniteSets, TLC

VARIABLES
  \* ---- diff engine harness ----
  oldLines,        \* input: old line sequence
  newLines,        \* input: new line sequence
  ceiling,         \* cost ceiling in force for computeLCS
  ops,             \* result of diffLines
  dpc,             \* "input" before the call, "done" after it
  textOld,         \* input of computeUnifiedDiff: old text
  textNew,         \* input of computeUnifiedDiff: new text
  contextLines,    \* input of computeUnifiedDiff: lines of context
  hunks,           \* result of computeUnifiedDiff
  container,       \* children that renderDiff gave its container
  \* ---- tab store, eviction cache, editing surface (app.js) ----
  tabs,            \* let tabs = []
  activeTabId,     \* let activeTabId = null
  nextTabId,       \* let nextTabId = 1
  issued,          \* history: the ids createTab has handed out in this process
  tabAccessOrder,  \* let tabAccessOrder = [] (most recent at end)
  view,            \* view.state of the one EditorView: [doc, selection]
  closeCalls,      \* closeTab calls suspended at confirmClose (their tabId)
  sessionSavePending, \* a fire of sessionSaveTimer is pending
  \* ---- durable stores ----
  idb,             \* IndexedDB 'session' entry: <<>> or <<data>>
  idbWrites,       \* idbSet('session', data) calls whose put has not settled, oldest first
  lsSession,       \* localStorage 'cogmd-session': <<>> or the raw string
  \* ---- process ----
  phase,           \* position of startup(): "off", "restoring", "pendingFile", "running"
  restarts,        \* number of relaunches so far
  reloadDue,       \* location.reload() has been called and the page is still there
  writes,          \* number of session saves that reached a durable store
  edits,           \* number of document changes so far
  \* ---- history (not program state) ----
  op,              \* the operation that produced this state
  evictLog,        \* what the last run of evictStaleTabStates did
  bootLog,         \* what the last restoreSession read
  savedStore,      \* the Tab Store as it was when the primary store was last written
  lsOrigin,        \* the data object whose serialization lsSession holds
  \* ---- right pane: preview, diff, timers (app.js) ----
  layoutMode,      \* let layoutMode: "single" or "split"
  rightPaneContent, \* let rightPaneContent: "preview" or "diff"
  isLargeFile,     \* let isLargeFile = false
  timerHandle,     \* previewRenderTimer, diffRenderTimer, sessionSaveTimer: 0 (null) or a timer id
  pendingFires,    \* timers set and neither fired nor cleared: [kind, id]
  previewShown,    \* what previewEl holds: [kind, text]
  diffShown,       \* what diffContent holds: [kind, cur, base]
  diffViewLoaded,  \* import('./diff-view.js') has resolved once
  importWaiters,   \* async functions suspended at that import, in call order
  shikiReady,      \* let shikiReady = false
  display,         \* style.display of previewPane, previewContent, diffContent: shown or not
  fx,              \* history: what the last step did to the pane and the timers
  \* ---- saving to files (app.js) ----
  currentFilePath, \* let currentFilePath = null
  saveCalls,       \* handleSave / handleSaveAs calls suspended at saveFile / saveFileAs
  disk,            \* path -> the text last written to it by saveFile / saveFileAs
  origin           \* history: tab id -> text and path of its last load or completed save

diffVars == <<oldLines, newLines, ceiling, ops, dpc, textOld, textNew, contextLines, hunks, container>>
tabVars == <<tabs, activeTabId, nextTabId, tabAccessOrder, view, closeCalls,
             sessionSavePending, issued>>
storeVars == <<idb, idbWrites, lsSession>>
procVars == <<phase, restarts, reloadDue, edits, writes>>
histVars == <<op, evictLog, bootLog, savedStore, lsOrigin>>
appVars == <<tabVars, storeVars, procVars, histVars>>
renderVars == <<layoutMode, rightPaneContent, isLargeFile, timerHandle, pendingFires,
                previewShown, diffShown, diffViewLoaded, importWaiters, shikiReady, display, fx>>
saveVars == <<currentFilePath, saveCalls, disk, origin>>
vars == <<diffVars, appVars, renderVars, saveVars>>

\* ------------------------------------------------------------------------
\* Bounds of the diff harness
\* ------------------------------------------------------------------------
MaxLen == 3
SmallCeiling == 2
LineAlphabet == {"a", "b", "c"}
MaxLenHunks == 4       \* lines per text in SpecHunks
MaxContext == 2        \* largest contextLines in SpecHunks
MaxUnchanged == 8      \* longest run of unchanged lines in SpecDiffView
OldChars == {"a", "b", "c"}
NewChars == {"a", "b", "c", "x"}

\* diff-engine.js:88
LCS_CEILING == 10000000

NoIdx == -1

Max(a, b) == IF a >= b THEN a ELSE b
Min(a, b) == IF a <= b THEN a ELSE b

Reverse(s) == [i \in 1..Len(s) |-> s[Len(s) + 1 - i]]

SeqsUpTo(S, n) == UNION {[1..k -> S] : k \in 0..n}

\* ------------------------------------------------------------------------
\* computeLCS: dynamic programming table and backtracking
\* ------------------------------------------------------------------------

\* mutant: a mismatch takes the cell above without comparing it with the
\* cell to the left
dpTable_noMax(old, new) ==
  LET dp[i \in 0..Len(old), j \in 0..Len(new)] ==
        IF i = 0 \/ j = 0 THEN 0
        ELSE IF old[i] = new[j] THEN dp[i - 1, j - 1] + 1
        ELSE dp[i - 1, j]
  IN dp

\* dp[i][j] of the code, filled row by row
dpTable(old, new) ==
  LET dp[i \in 0..Len(old), j \in 0..Len(new)] ==
        IF i = 0 \/ j = 0 THEN 0
        ELSE IF old[i] = new[j] THEN dp[i - 1, j - 1] + 1
        ELSE Max(dp[i - 1, j], dp[i, j - 1])
  IN dp

\* the backtracking loop; result is in push order (last pair first)
RECURSIVE backtrack(_, _, _, _, _, _)
backtrack(old, new, dp, i, j, result) ==
  IF ~(i > 0 /\ j > 0) THEN result
  ELSE IF old[i] = new[j]
    THEN backtrack(old, new, dp, i - 1, j - 1, Append(result, <<i - 1, j - 1>>))
  ELSE IF dp[i - 1, j] >= dp[i, j - 1]
    THEN backtrack(old, new, dp, i - 1, j, result)
  ELSE backtrack(old, new, dp, i, j - 1, result)

computeLCSDP(old, new) ==
  Reverse(backtrack(old, new, dpTable(old, new), Len(old), Len(new), <<>>))

\* ------------------------------------------------------------------------
\* computeLCSDiagonal: greedy fallback
\* ------------------------------------------------------------------------

\* newIndex.get(line): the 0-based positions of line in new, ascending
RECURSIVE positionsFrom(_, _, _)
positionsFrom(new, line, j) ==
  IF j >= Len(new) THEN <<>>
  ELSE IF new[j + 1] = line THEN <<j>> \o positionsFrom(new, line, j + 1)
  ELSE positionsFrom(new, line, j + 1)

newIndexGet(new, line) == positionsFrom(new, line, 0)

\* mutant: the first position is taken, wherever the last match was
firstAfter_ignoreLast(positions, lastJ, k) ==
  IF Len(positions) = 0 THEN NoIdx ELSE positions[1]

\* for (const j of positions) if (j > lastJ) ... break
RECURSIVE firstAfter(_, _, _)
firstAfter(positions, lastJ, k) ==
  IF k > Len(positions) THEN NoIdx
  ELSE IF positions[k] > lastJ THEN positions[k]
  ELSE firstAfter(positions, lastJ, k + 1)

RECURSIVE diagonalLoop(_, _, _, _, _)
diagonalLoop(old, new, i, lastJ, result) ==
  IF i >= Len(old) THEN result
  ELSE LET j == firstAfter(newIndexGet(new, old[i + 1]), lastJ, 1)
       IN IF j = NoIdx
            THEN diagonalLoop(old, new, i + 1, lastJ, result)
            ELSE diagonalLoop(old, new, i + 1, j, Append(result, <<i, j>>))

computeLCSDiagonal(old, new) == diagonalLoop(old, new, 0, -1, <<>>)

\* computeLCS with the ceiling as a parameter
\* mutant: no line is taken as common
computeLCSAt_nothingCommon(ceil, old, new) == <<>>

computeLCSAt(ceil, old, new) ==
  IF Len(old) * Len(new) > ceil
    THEN computeLCSDiagonal(old, new)
    ELSE computeLCSDP(old, new)

computeLCS(old, new) == computeLCSAt(LCS_CEILING, old, new)

\* ------------------------------------------------------------------------
\* diffLines
\* ------------------------------------------------------------------------
EqualOp(oi, ni) == [type |-> "equal", oldIdx |-> oi, newIdx |-> ni]
DeleteOp(oi) == [type |-> "delete", oldIdx |-> oi, newIdx |-> NoIdx]
InsertOp(ni) == [type |-> "insert", oldIdx |-> NoIdx, newIdx |-> ni]
\* marks a run of the while loop that makes no progress (does not return)
StuckOp == [type |-> "stuck", oldIdx |-> NoIdx, newIdx |-> NoIdx]

\* mutant: the delete loop stops one line early
deletesUpTo_skipLast(oi, bound) ==
  IF oi < bound - 1 THEN [k \in 1..(bound - 1 - oi) |-> [type |-> "delete", oldIdx |-> oi + k - 1, newIdx |-> -1]] ELSE <<>>

\* while (oi < bound) { push delete; oi++ }
deletesUpTo(oi, bound) ==
  IF oi < bound THEN [k \in 1..(bound - oi) |-> DeleteOp(oi + k - 1)] ELSE <<>>

\* while (ni < bound) { push insert; ni++ }
insertsUpTo(ni, bound) ==
  IF ni < bound THEN [k \in 1..(bound - ni) |-> InsertOp(ni + k - 1)] ELSE <<>>

\* mutant: the insert loops run before the delete loops
RECURSIVE opsWalk_insertsFirst(_, _, _, _, _, _, _)
opsWalk_insertsFirst(lcs, oldLen, newLen, oi, ni, li, acc) ==
  IF ~(oi < oldLen \/ ni < newLen) THEN acc
  ELSE IF li < Len(lcs) /\ oi = lcs[li + 1][1] /\ ni = lcs[li + 1][2]
    THEN opsWalk_insertsFirst(lcs, oldLen, newLen, oi + 1, ni + 1, li + 1,
                              Append(acc, EqualOp(oi, ni)))
  ELSE IF li < Len(lcs)
    THEN IF oi >= lcs[li + 1][1] /\ ni >= lcs[li + 1][2]
           THEN Append(acc, StuckOp)
           ELSE opsWalk_insertsFirst(lcs, oldLen, newLen,
                        Max(oi, lcs[li + 1][1]), Max(ni, lcs[li + 1][2]), li,
                        acc \o insertsUpTo(ni, lcs[li + 1][2])
                            \o deletesUpTo(oi, lcs[li + 1][1]))
  ELSE opsWalk_insertsFirst(lcs, oldLen, newLen, Max(oi, oldLen), Max(ni, newLen), li,
                            acc \o insertsUpTo(ni, newLen) \o deletesUpTo(oi, oldLen))

\* the main while loop of diffLines
RECURSIVE opsWalk(_, _, _, _, _, _, _)
opsWalk(lcs, oldLen, newLen, oi, ni, li, acc) ==
  IF ~(oi < oldLen \/ ni < newLen) THEN acc
  ELSE IF li < Len(lcs) /\ oi = lcs[li + 1][1] /\ ni = lcs[li + 1][2]
    THEN opsWalk(lcs, oldLen, newLen, oi + 1, ni + 1, li + 1,
                 Append(acc, EqualOp(oi, ni)))
  ELSE IF li < Len(lcs)
    THEN IF oi >= lcs[li + 1][1] /\ ni >= lcs[li + 1][2]
           THEN Append(acc, StuckOp)
           ELSE opsWalk(lcs, oldLen, newLen,
                        Max(oi, lcs[li + 1][1]), Max(ni, lcs[li + 1][2]), li,
                        acc \o deletesUpTo(oi, lcs[li + 1][1])
                            \o insertsUpTo(ni, lcs[li + 1][2]))
  ELSE opsWalk(lcs, oldLen, newLen, Max(oi, oldLen), Max(ni, newLen), li,
               acc \o deletesUpTo(oi, oldLen) \o insertsUpTo(ni, newLen))

opsFromLCS(lcs, old, new) == opsWalk(lcs, Len(old), Len(new), 0, 0, 0, <<>>)

\* fast path test: same length and pairwise identical
identicalLines(old, new) ==
  /\ Len(old) = Len(new)
  /\ \A i \in 1..Len(old) : old[i] = new[i]

diffLinesAt(ceil, old, new) ==
  IF identicalLines(old, new)
    THEN [i \in 1..Len(old) |-> EqualOp(i - 1, i - 1)]
    ELSE opsFromLCS(computeLCSAt(ceil, old, new), old, new)

diffLines(old, new) == diffLinesAt(LCS_CEILING, old, new)


\* ------------------------------------------------------------------------
\* buildHunks and computeUnifiedDiff.  A text is the sequence of its
\* characters; a line of a text is the sequence of the characters between
\* two newlines.
\* ------------------------------------------------------------------------
NL == "\n"

\* "let oldStart = null, newStart = null" (line numbers start at 1)
NoStart == 0

\* text.split('\n'), from character i on; cur is the line being read
RECURSIVE splitFrom(_, _, _, _)
splitFrom(text, i, cur, acc) ==
  IF i > Len(text) THEN Append(acc, cur)
  ELSE IF text[i] = NL THEN splitFrom(text, i + 1, <<>>, Append(acc, cur))
  ELSE splitFrom(text, i + 1, Append(cur, text[i]), acc)

splitLines(text) == splitFrom(text, 1, <<>>, <<>>)

\* the text whose lines are ls: lines.join('\n')
RECURSIVE joinLines(_)
joinLines(ls) ==
  IF Len(ls) = 0 THEN <<>>
  ELSE IF Len(ls) = 1 THEN ls[1]
  ELSE ls[1] \o <<NL>> \o joinLines(Tail(ls))

\* the inner while of the change scan: first index from i on that holds an
\* equal op, or ops.length
RECURSIVE runEnd(_, _)
runEnd(os, i) ==
  IF i < Len(os) /\ os[i + 1].type # "equal" THEN runEnd(os, i + 1) ELSE i

\* "Find change ranges (non-equal ops)": pairs [start, end] of op indices
RECURSIVE changesFrom(_, _, _)
changesFrom(os, i, acc) ==
  IF i >= Len(os) THEN acc
  ELSE IF os[i + 1].type # "equal"
    THEN LET e == runEnd(os, i)
         IN changesFrom(os, e, Append(acc, <<i, e - 1>>))
  ELSE changesFrom(os, i + 1, acc)

changeRanges(os) == changesFrom(os, 0, <<>>)

\* mutant: ranges that only touch are not merged
touches_overlapOnly(nextStart, currentEnd) == nextStart <= currentEnd

\* "if (nextStart <= currentEnd + 1)"
touches(nextStart, currentEnd) == nextStart <= currentEnd + 1

\* the loop "for (let c = 1; c < changes.length; c++)" and the final push
RECURSIVE mergeLoop(_, _, _, _, _, _, _)
mergeLoop(changes, n, ctx, k, currentStart, currentEnd, acc) ==
  IF k > Len(changes) THEN Append(acc, <<currentStart, currentEnd>>)
  ELSE LET nextStart == Max(0, changes[k][1] - ctx)
           nextEnd == Min(n - 1, changes[k][2] + ctx)
       IN IF touches(nextStart, currentEnd)
            THEN mergeLoop(changes, n, ctx, k + 1, currentStart, nextEnd, acc)
            ELSE mergeLoop(changes, n, ctx, k + 1, nextStart, nextEnd,
                           Append(acc, <<currentStart, currentEnd>>))

\* mutant: the loop over the changes after the first is left out
hunkRanges_firstChangeOnly(os, ctx) ==
  LET changes == changeRanges(os)
  IN IF Len(changes) = 0 THEN <<>>
     ELSE <<(<<Max(0, changes[1][1] - ctx), Min(Len(os) - 1, changes[1][2] + ctx)>>)>>

\* "Merge nearby changes into hunks": pairs [start, end] of op indices
hunkRanges(os, ctx) ==
  LET changes == changeRanges(os)
  IN IF Len(changes) = 0 THEN <<>>
     ELSE mergeLoop(changes, Len(os), ctx, 2,
                    Max(0, changes[1][1] - ctx),
                    Min(Len(os) - 1, changes[1][2] + ctx), <<>>)

\* mutant: the look-ahead finds nothing
lookAhead_none(os, side, j, end) == NoStart

\* the look-ahead loops: line number of the first op in j..end that has an
\* index on the given side, NoStart when there is none
RECURSIVE lookAhead(_, _, _, _)
lookAhead(os, side, j, end) ==
  IF j > end THEN NoStart
  ELSE IF os[j + 1][side] # NoIdx THEN os[j + 1][side] + 1
  ELSE lookAhead(os, side, j + 1, end)

\* mutant: a context line carries the 0-based indices
ContextLine_zeroBased(old, o) ==
  [type |-> "context", text |-> old[o.oldIdx + 1],
   oldLine |-> o.oldIdx, newLine |-> o.newIdx]

ContextLine(old, o) ==
  [type |-> "context", text |-> old[o.oldIdx + 1],
   oldLine |-> o.oldIdx + 1, newLine |-> o.newIdx + 1]
RemoveLine(old, o) ==
  [type |-> "remove", text |-> old[o.oldIdx + 1],
   oldLine |-> o.oldIdx + 1, newLine |-> NoIdx]
AddLine(new, o) ==
  [type |-> "add", text |-> new[o.newIdx + 1],
   oldLine |-> NoIdx, newLine |-> o.newIdx + 1]

\* "oldStart || 1"
orOne(x) == IF x = NoStart THEN 1 ELSE x

\* the loop "for (let i = start; i <= end; i++)" that builds one hunk
RECURSIVE hunkLoop(_, _, _, _, _, _, _, _)
hunkLoop(os, old, new, i, end, oldStart, newStart, lines) ==
  IF i > end
    THEN [oldStart |-> orOne(oldStart), newStart |-> orOne(newStart), lines |-> lines]
  ELSE LET o == os[i + 1]
       IN IF o.type = "equal"
            THEN hunkLoop(os, old, new, i + 1, end,
                          IF oldStart = NoStart THEN o.oldIdx + 1 ELSE oldStart,
                          IF newStart = NoStart THEN o.newIdx + 1 ELSE newStart,
                          Append(lines, ContextLine(old, o)))
          ELSE IF o.type = "delete"
            THEN hunkLoop(os, old, new, i + 1, end,
                          IF oldStart = NoStart THEN o.oldIdx + 1 ELSE oldStart,
                          IF newStart # NoStart THEN newStart
                          ELSE LET a == lookAhead(os, "newIdx", i + 1, end)
                               IN IF a = NoStart THEN Len(new) + 1 ELSE a,
                          Append(lines, RemoveLine(old, o)))
          ELSE IF o.type = "insert"
            THEN hunkLoop(os, old, new, i + 1, end,
                          IF oldStart # NoStart THEN oldStart
                          ELSE LET a == lookAhead(os, "oldIdx", i + 1, end)
                               IN IF a = NoStart THEN Len(old) + 1 ELSE a,
                          IF newStart = NoStart THEN o.newIdx + 1 ELSE newStart,
                          Append(lines, AddLine(new, o)))
          ELSE hunkLoop(os, old, new, i + 1, end, oldStart, newStart, lines)

\* buildHunks(ops, oldLines, newLines, contextLines)
buildHunks(os, old, new, ctx) ==
  LET ranges == hunkRanges(os, ctx)
  IN [h \in 1..Len(ranges) |->
        hunkLoop(os, old, new, ranges[h][1], ranges[h][2], NoStart, NoStart, <<>>)]

\* computeUnifiedDiff with the given ceiling in computeLCS
computeUnifiedDiffAt(ceil, oldText, newText, ctx) ==
  LET old == splitLines(oldText)
      new == splitLines(newText)
  IN buildHunks(diffLinesAt(ceil, old, new), old, new, ctx)

\* computeUnifiedDiff(oldText, newText, contextLines)
computeUnifiedDiff(oldText, newText, ctx) ==
  computeUnifiedDiffAt(LCS_CEILING, oldText, newText, ctx)

\* ------------------------------------------------------------------------
\* diff-view.js: renderDiff, as the children it appends to its container
\* ------------------------------------------------------------------------
\* "computeUnifiedDiff(baseText, currentText, 3)"
DIFF_CONTEXT == 3

\* the children of the container
EmptyRow == [kind |-> "empty"]
CollapseRow(n) == [kind |-> "collapse", count |-> n]
HeaderRow(oldStart, oldCount, newStart, newCount) ==
  [kind |-> "header", oldStart |-> oldStart, oldCount |-> oldCount,
   newStart |-> newStart, newCount |-> newCount]
HunkRows(lines) == [kind |-> "hunk", lines |-> lines]

\* hunk.lines.filter(l => l.type === a || l.type === b).length
countOfTypes(lines, a, b) ==
  Len(SelectSeq(lines, LAMBDA l : l.type = a \/ l.type = b))

\* mutant: the gap is counted from the last line of the previous hunk on
gapCountOf_inclusive(prevHunkEnd, hunk) == hunk.oldStart - prevHunkEnd

\* "gapEnd - gapStart" with gapStart = prevHunkEnd, gapEnd = hunk.oldStart - 1
gapCountOf(prevHunkEnd, hunk) == (hunk.oldStart - 1) - prevHunkEnd

\* "lastOldLine ? lastOldLine.oldLine : hunk.oldStart"
hunkEndOf(hunk) ==
  LET withOld == SelectSeq(hunk.lines, LAMBDA l : l.oldLine # NoIdx)
  IN IF Len(withOld) > 0 THEN withOld[Len(withOld)].oldLine ELSE hunk.oldStart

\* the body of hunks.forEach for the hunk at hunkIdx (from 0)
hunkChildren(hs, hunkIdx, prevHunkEnd) ==
  LET hunk == hs[hunkIdx + 1]
      gapCount == gapCountOf(prevHunkEnd, hunk)
      collapse == IF hunkIdx > 0 /\ gapCount > 0 THEN <<CollapseRow(gapCount)>> ELSE <<>>
  IN collapse \o
     <<HeaderRow(hunk.oldStart, countOfTypes(hunk.lines, "context", "remove"),
                 hunk.newStart, countOfTypes(hunk.lines, "context", "add")),
       HunkRows(hunk.lines)>>

RECURSIVE forEachHunk(_, _, _, _)
forEachHunk(hs, hunkIdx, prevHunkEnd, out) ==
  IF hunkIdx >= Len(hs) THEN out
  ELSE forEachHunk(hs, hunkIdx + 1, hunkEndOf(hs[hunkIdx + 1]),
                   out \o hunkChildren(hs, hunkIdx, prevHunkEnd))

\* renderDiff(currentText, baseText, container): the container's children
renderDiffChildren(currentText, baseText) ==
  LET hs == computeUnifiedDiff(baseText, currentText, DIFF_CONTEXT)
  IN IF Len(hs) = 0 THEN <<EmptyRow>> ELSE forEachHunk(hs, 0, 0, <<>>)
\* ========================================================================
\* Tab store, eviction cache and editing surface (app.js)
\* ========================================================================

\* ---- bounds of the application model ----
MaxTabId == 4          \* ids handed out by createTab in Spec
MaxTabIdLRU == 6       \* ids handed out by createTab in SpecLRU
MaxPendingClose == 2   \* closeTab calls suspended at the confirmation
MaxRestarts == 1       \* relaunches of the application
MaxTabIdSession == 3   \* ids handed out by createTab in SpecSession
MaxEditsSession == 1   \* document changes in SpecSession
MaxTabIdIds == 3       \* ids handed out by createTab in SpecIds
MaxWrites == 1         \* session saves that reach a durable store
MaxPendingResets == 1  \* idbSet('session', null) calls pending at once
MaxWritesReset == 2     \* session saves that reach a durable store in SpecReset
MaxEdits == 2          \* document changes in Spec
MaxTabIdLive == 2      \* ids handed out by createTab in SpecLive
MaxEditsLive == 1      \* document changes in SpecLive
MaxWritesLive == 2     \* session saves that reach the primary store in SpecLive
MaxPendingLive == 1    \* closeTab calls waiting at the confirmation in SpecLive
MaxEditsLRU == 1       \* document changes in SpecLRU
MaxClosesLRU == 1      \* closed tabs in SpecLRU
MaxTabIdSeven == 7     \* ids handed out by createTab in SpecSeven
MaxEditsSeven == 2     \* document changes in SpecSeven

\* app.js:260
MAX_CACHED_TAB_STATES == 5

Null == 0
\* a property that is undefined (missing from a stored object)
Undef == "<undefined>"
\* filePath: null
NoPath == ""
FilePaths == {"/p"}
\* the files the OS hands over in SpecIds
FilePathsIds == {"/p", "/q"}
Texts == {"", "x"}
ScrollVals == {0, 1}

\* app.js: const LARGE_FILE_THRESHOLD = 200 * 1024
LARGE_FILE_THRESHOLD == 204800
\* a document longer than the threshold, and what an edit makes of it
BigText == "big"
BigTextEdited == "big+"
EditTexts == {"", "x", BigTextEdited}

\* .length of a document text
TextLen(t) ==
  IF t = "" THEN 0
  ELSE IF t = BigText THEN LARGE_FILE_THRESHOLD + 1
  ELSE IF t = BigTextEdited THEN LARGE_FILE_THRESHOLD + 2
  ELSE 1

\* a collapsed selection { anchor, head }
Sel(p) == [anchor |-> p, head |-> p]

\* tab.editorState = null, or never set
NullState == [null |-> TRUE, doc |-> "", selection |-> Sel(0)]

\* EditorState.create({ doc, extensions }): cursor at 0
makeEditorState(doc) == [null |-> FALSE, doc |-> doc, selection |-> Sel(0)]

\* x || '' on a string or undefined
OrEmpty(x) == IF x = Undef THEN "" ELSE x

\* tabs.findIndex(t => t.id === id), 0-based, -1 when absent
findIndex(ts, id) ==
  IF \E i \in 1..Len(ts) : ts[i].id = id
    THEN (CHOOSE i \in 1..Len(ts) : ts[i].id = id /\ \A j \in 1..(i - 1) : ts[j].id # id) - 1
    ELSE -1

hasTab(ts, id) == findIndex(ts, id) >= 0

\* tabs.find(t => t.id === id), for an id that is present
findTab(ts, id) == ts[findIndex(ts, id) + 1]

\* tabs.find(t => t.filePath === path): its id, Null when absent
findByPath(ts, path) ==
  IF \E i \in 1..Len(ts) : ts[i].filePath = path
    THEN ts[CHOOSE i \in 1..Len(ts) : ts[i].filePath = path /\ \A j \in 1..(i - 1) : ts[j].filePath # path].id
    ELSE Null

\* array.filter(id => id !== x)
RECURSIVE filterOut(_, _)
filterOut(seq, x) ==
  IF seq = <<>> THEN <<>>
  ELSE IF Head(seq) = x THEN filterOut(Tail(seq), x)
  ELSE <<Head(seq)>> \o filterOut(Tail(seq), x)

\* array.splice(idx, 1) with a 0-based idx; a negative idx counts from the end
splice1(seq, idx) ==
  LET n == Len(seq)
      at == IF idx < 0 THEN Max(n + idx, 0) ELSE Min(idx, n)
  IN IF at >= n THEN seq
     ELSE [i \in 1..(n - 1) |-> IF i <= at THEN seq[i] ELSE seq[i + 1]]

NoEvict == [ran |-> FALSE, active |-> Null, touched |-> Null, toEvict |-> <<>>, discarded |-> {}]

\* ------------------------------------------------------------------------
\* The in-memory state a handler works on.  A handler is a function from
\* this record to this record; the action commits the result.
\* ------------------------------------------------------------------------
Cur ==
  [tabs |-> tabs, active |-> activeTabId, next |-> nextTabId,
   order |-> tabAccessOrder, view |-> view,
   savePending |-> sessionSavePending, ev |-> NoEvict, issued |-> issued]

\* app.js createTab: the tab object (filePath || null, content || '': an
\* omitted path is no path, an omitted content the empty text)
newTabObject(id, filePath, content) ==
  [id |-> id, filePath |-> IF filePath = Undef THEN NoPath ELSE filePath,
   content |-> OrEmpty(content),
   editorState |-> NullState, isDirty |-> FALSE, scrollTop |-> 0,
   selectionMain |-> Sel(0), lastSavedContent |-> OrEmpty(content)]

\* mutant: the id is taken from the length of the list
createTab_lengthId(s, filePath, content) ==
  [s EXCEPT !.tabs = Append(s.tabs, newTabObject(Len(s.tabs) + 1, filePath, content)),
            !.next = s.next + 1,
            !.issued = @ \cup {Len(s.tabs) + 1}]

\* createTab(filePath, content); the new tab's id is s.next (issued records
\* the id as handed out)
createTab(s, filePath, content) ==
  [s EXCEPT !.tabs = Append(s.tabs, newTabObject(s.next, filePath, content)),
            !.next = s.next + 1,
            !.issued = @ \cup {s.next}]

\* snapshotCurrentTab(); scroll is view.scrollDOM.scrollTop as read now
snapshotCurrentTab(s, scroll) ==
  IF ~hasTab(s.tabs, s.active) THEN s
  ELSE LET i == findIndex(s.tabs, s.active) + 1
       IN [s EXCEPT !.tabs[i].editorState = s.view,
                    !.tabs[i].selectionMain =
                       [anchor |-> s.view.selection.anchor, head |-> s.view.selection.head],
                    !.tabs[i].scrollTop = scroll]

\* mutant: the slice is taken from the most recently used end
toEvictOf_newest(order) == SubSeq(order, MAX_CACHED_TAB_STATES + 1, Len(order))

\* tabAccessOrder.slice(0, tabAccessOrder.length - MAX_CACHED_TAB_STATES)
toEvictOf(order) == SubSeq(order, 1, Len(order) - MAX_CACHED_TAB_STATES)

\* mutant: nothing is ever discarded
evictable_never(ts, id, active) == FALSE

\* the guard of the loop body of evictStaleTabStates
evictable(ts, id, active) ==
  /\ hasTab(ts, id)
  /\ ~findTab(ts, id).editorState.null
  /\ id # active

\* mutant: the editing state is dropped without copying its text
evictTab_dropContent(ts, id) ==
  LET i == findIndex(ts, id) + 1
  IN [ts EXCEPT ![i].editorState = NullState]

\* the loop body: tab.content = tab.editorState.doc.toString(); tab.editorState = null
evictTab(ts, id) ==
  LET i == findIndex(ts, id) + 1
  IN [ts EXCEPT ![i].content = ts[i].editorState.doc,
                ![i].editorState = NullState]

RECURSIVE evictLoop(_, _, _, _)
evictLoop(ts, toEvict, k, active) ==
  IF k > Len(toEvict) THEN ts
  ELSE evictLoop(IF evictable(ts, toEvict[k], active) THEN evictTab(ts, toEvict[k]) ELSE ts,
                 toEvict, k + 1, active)

evictStaleTabStates(s) ==
  IF Len(s.order) <= MAX_CACHED_TAB_STATES THEN s
  ELSE LET toEvict == toEvictOf(s.order)
           ts2 == evictLoop(s.tabs, toEvict, 1, s.active)
       IN [s EXCEPT !.tabs = ts2,
                    !.ev = [ran |-> TRUE, active |-> s.active, touched |-> Null,
                            toEvict |-> toEvict,
                            discarded |-> {s.tabs[i].id : i \in {j \in 1..Len(s.tabs) :
                                             ~s.tabs[j].editorState.null /\ ts2[j].editorState.null}}]]

touchTab(s, tabId) ==
  LET s1 == [s EXCEPT !.order = Append(filterOut(s.order, tabId), tabId)]
      s2 == evictStaleTabStates(s1)
  IN [s2 EXCEPT !.ev.touched = tabId]

\* scheduleSessionSave()
scheduleSessionSave(s) == [s EXCEPT !.savePending = TRUE]

\* the body of the updateListener's if: the active tab becomes dirty
onDocChanged(s) ==
  LET s1 == IF hasTab(s.tabs, s.active)
              THEN [s EXCEPT !.tabs[findIndex(s.tabs, s.active) + 1].isDirty = TRUE]
              ELSE s
  IN scheduleSessionSave(s1)

\* mutant: the listener does not look at isTabSwitching
updateListener_ignoreSwitching(s, docChanged, switching) ==
  IF docChanged THEN onDocChanged(s) ELSE s

\* the updateListener of the editor: "if (update.docChanged &&
\* !isTabSwitching)".  s is the state with the update applied; switching is
\* the value of isTabSwitching when the editor reports the update.
updateListener(s, docChanged, switching) ==
  IF ~switching /\ docChanged THEN onDocChanged(s) ELSE s

\* activateTab(tabId)
activateTab(s, tabId, scroll) ==
  IF s.active = tabId THEN s
  ELSE LET s1 == snapshotCurrentTab(s, scroll)
       IN IF ~hasTab(s1.tabs, tabId) THEN s1
          ELSE LET s2 == touchTab(s1, tabId)
                   tab == findTab(s2.tabs, tabId)
                   v == IF ~tab.editorState.null
                          THEN tab.editorState
                          ELSE makeEditorState(OrEmpty(tab.content))
                   s3 == updateListener([s2 EXCEPT !.view = v], v.doc # s2.view.doc, TRUE)
               IN scheduleSessionSave([s3 EXCEPT !.active = tabId])

\* closeTab(tabId) from "tab.editorState = null" to its end, i.e. the part
\* that runs once the close is not vetoed.  thrown is TRUE when
\* tabs[newIdx].id raises a TypeError (newIdx = -1).
closeTabFinish(s, tabId, scroll) ==
  LET idx == findIndex(s.tabs, tabId)
      ts2 == splice1(s.tabs, idx)
      s1 == [s EXCEPT !.tabs = ts2, !.order = filterOut(s.order, tabId)]
  IN IF Len(ts2) = 0
       THEN LET s2 == createTab(s1, NoPath, "")
            IN [st |-> scheduleSessionSave(activateTab([s2 EXCEPT !.active = Null], s1.next, scroll)),
                thrown |-> FALSE]
     ELSE IF tabId = s.active
       THEN LET newIdx == Min(idx, Len(ts2) - 1)
            IN IF newIdx < 0
                 THEN [st |-> [s1 EXCEPT !.active = Null], thrown |-> TRUE]
                 ELSE [st |-> scheduleSessionSave(
                                activateTab([s1 EXCEPT !.active = Null], ts2[newIdx + 1].id, scroll)),
                       thrown |-> FALSE]
     ELSE [st |-> scheduleSessionSave(s1), thrown |-> FALSE]

\* mutant: the answer of the confirmation is not looked at
closeTabResume_ignoreVeto(s, tabId, shouldClose, scroll) ==
  closeTabFinish(s, tabId, scroll)

\* closeTab(tabId) from the return of confirmClose on
closeTabResume(s, tabId, shouldClose, scroll) ==
  IF ~shouldClose THEN [st |-> s, thrown |-> FALSE]
  ELSE closeTabFinish(s, tabId, scroll)

\* cycleTab(direction)
cycleTab(s, direction, scroll) ==
  IF Len(s.tabs) <= 1 THEN s
  ELSE LET idx == findIndex(s.tabs, s.active)
           newIdx == (idx + direction + Len(s.tabs)) % Len(s.tabs)
       IN activateTab(s, s.tabs[newIdx + 1].id, scroll)

\* handleNew()
handleNew(s, scroll) ==
  LET s1 == snapshotCurrentTab(s, scroll)
      s2 == createTab(s1, NoPath, "")
  IN activateTab(s2, s1.next, scroll)

\* the body of the onFileOpened listener, and of the pending-file branch of startup()
openInTab(s, filePath, content, scroll) ==
  LET existing == findByPath(s.tabs, filePath)
  IN IF existing # Null THEN activateTab(s, existing, scroll)
     ELSE LET s1 == snapshotCurrentTab(s, scroll)
              s2 == createTab(s1, filePath, content)
          IN activateTab(s2, s1.next, scroll)

\* handleOpen: "if (active && !active.isDirty && !active.filePath &&
\* view.state.doc.length === 0)"
reusesActiveTab(s) ==
  /\ hasTab(s.tabs, s.active)
  /\ ~findTab(s.tabs, s.active).isDirty
  /\ findTab(s.tabs, s.active).filePath = NoPath
  /\ TextLen(s.view.doc) = 0

\* handleOpen() once the dialog has returned a file
handleOpen(s, filePath, content, scroll) ==
  LET existing == findByPath(s.tabs, filePath)
  IN IF existing # Null THEN activateTab(s, existing, scroll)
     ELSE IF reusesActiveTab(s)
       THEN LET i == findIndex(s.tabs, s.active) + 1
                s1 == updateListener([s EXCEPT !.view.doc = content],
                                     content # s.view.doc, TRUE)
            IN scheduleSessionSave(
                 [s1 EXCEPT !.tabs[i].filePath = filePath,
                            !.tabs[i].content = content,
                            !.tabs[i].lastSavedContent = content])
     ELSE openInTab(s, filePath, content, scroll)

\* ------------------------------------------------------------------------
\* Session persistence
\* ------------------------------------------------------------------------

\* saveSession: the data object built after snapshotCurrentTab()
sessionData(s) ==
  [tabs |-> [i \in 1..Len(s.tabs) |->
               LET t == s.tabs[i]
               IN [id |-> t.id,
                   filePath |-> t.filePath,
                   content |-> IF ~t.editorState.null THEN t.editorState.doc
                                                      ELSE OrEmpty(t.content),
                   isDirty |-> t.isDirty,
                   scrollTop |-> t.scrollTop,
                   selectionMain |-> t.selectionMain,
                   lastSavedContent |-> OrEmpty(t.lastSavedContent)]],
   activeTabId |-> s.active,
   nextTabId |-> s.next]

\* mutant: the selection is serialized as a cursor at the start
JSONstringify_noSelection(d) ==
  <<"{tabs:", [i \in 1..Len(d.tabs) |->
                 LET t == d.tabs[i]
                 IN <<t.id, t.filePath, t.content, t.isDirty, t.scrollTop,
                      0, 0, t.lastSavedContent>>],
    "activeTabId:", d.activeTabId, "nextTabId:", d.nextTabId, "}">>

\* JSON.stringify(data): the text, as the list of its tokens in document order
JSONstringify(d) ==
  <<"{tabs:", [i \in 1..Len(d.tabs) |->
                 LET t == d.tabs[i]
                 IN <<t.id, t.filePath, t.content, t.isDirty, t.scrollTop,
                      t.selectionMain.anchor, t.selectionMain.head,
                      t.lastSavedContent>>],
    "activeTabId:", d.activeTabId, "nextTabId:", d.nextTabId, "}">>

\* a stored string that is not JSON
CorruptRaw == <<"{tabs:">>

\* JSON.parse(raw) succeeds
JSONvalid(raw) == Len(raw) = 7 /\ raw[1] = "{tabs:" /\ raw[7] = "}"

\* JSON.parse(raw) for a raw that parses
JSONparse(raw) ==
  [tabs |-> [i \in 1..Len(raw[2]) |->
               LET f == raw[2][i]
               IN [id |-> f[1], filePath |-> f[2], content |-> f[3], isDirty |-> f[4],
                   scrollTop |-> f[5], selectionMain |-> [anchor |-> f[6], head |-> f[7]],
                   lastSavedContent |-> f[8]]],
   activeTabId |-> raw[4],
   nextTabId |-> raw[6]]

\* Math.max(...tabs.map(t => t.id))
maxTabIdOf(ts) == CHOOSE m \in {ts[i].id : i \in 1..Len(ts)} : \A i \in 1..Len(ts) : ts[i].id <= m

\* mutant: the legacy key is left in place after it was read
restoreRead_keepLegacy(readOk) ==
  IF readOk /\ idb # <<>>
    THEN [src |-> "primary", data |-> idb, ls |-> lsSession]
  ELSE IF lsSession # <<>> /\ JSONvalid(lsSession)
    THEN [src |-> "legacy", data |-> <<JSONparse(lsSession)>>, ls |-> lsSession]
  ELSE [src |-> "none", data |-> <<>>, ls |-> lsSession]

\* restoreSession: what it reads.  readOk is FALSE when idbGet rejects.
\* src names the store the data came from; ls is localStorage afterwards.
restoreRead(readOk) ==
  IF readOk /\ idb # <<>>
    THEN [src |-> "primary", data |-> idb, ls |-> lsSession]
  ELSE IF lsSession # <<>> /\ JSONvalid(lsSession)
    THEN [src |-> "legacy", data |-> <<JSONparse(lsSession)>>, ls |-> <<>>]
  ELSE [src |-> "none", data |-> <<>>, ls |-> lsSession]

\* restoreSession returns true for this data
restorable(data) == data # <<>> /\ Len(data[1].tabs) > 0

\* restoreSession from "tabs = data.tabs.map" on, for restorable data
restoreTabs(s, d) ==
  LET ts == [i \in 1..Len(d.tabs) |->
               LET t == d.tabs[i]
               IN [id |-> t.id, filePath |-> t.filePath, content |-> t.content,
                   editorState |-> NullState, isDirty |-> t.isDirty,
                   scrollTop |-> t.scrollTop, selectionMain |-> t.selectionMain,
                   lastSavedContent |->
                     IF t.lastSavedContent # Undef THEN t.lastSavedContent
                     ELSE IF t.content # Undef THEN t.content ELSE ""]]
      next == IF d.nextTabId # Null THEN d.nextTabId ELSE maxTabIdOf(ts) + 1
      targetId == IF d.activeTabId # Null THEN d.activeTabId ELSE ts[1].id
      tab == IF hasTab(ts, targetId) THEN findTab(ts, targetId) ELSE ts[1]
      s0 == updateListener([s EXCEPT !.tabs = ts, !.next = next,
                                     !.view = makeEditorState(OrEmpty(tab.content))],
                           OrEmpty(tab.content) # s.view.doc, TRUE)
      s1 == [s0 EXCEPT !.active = tab.id]
  IN \* renderPreviewImmediate(tab.content) reads text.length: it throws for a
     \* tab stored without content, before renderTabBar and touchTab
     IF tab.content = Undef THEN s1 ELSE touchTab(s1, tab.id)

\* startup() from the return of restoreSession to "await getPendingFile()"
startupAfterRestore(s, data) ==
  IF restorable(data) THEN restoreTabs(s, data[1])
  ELSE LET s1 == createTab(s, NoPath, "")
       IN [s1 EXCEPT !.active = s.next]

\* the Tab Store as a user sees it: every tab with its authoritative text
\* (live editor text for the active tab, else the retained editing state's
\* text, else content), plus the active pointer and the id counter
authText(s, t) ==
  IF t.id = s.active THEN s.view.doc
  ELSE IF ~t.editorState.null THEN t.editorState.doc
  ELSE OrEmpty(t.content)

\* ========================================================================
\* Actions: one per handler, timer callback or resumption of an async function
\* ========================================================================

\* write back the state a handler produced
Commit(s) ==
  /\ tabs' = s.tabs
  /\ activeTabId' = s.active
  /\ nextTabId' = s.next
  /\ tabAccessOrder' = s.order
  /\ view' = s.view
  /\ sessionSavePending' = s.savePending
  /\ evictLog' = s.ev
  /\ issued' = s.issued

\* history record of a step: the handler, its argument, whether it threw
Op(name, id) == [name |-> name, id |-> id, threw |-> FALSE]

\* the ids that a click in the tab bar can name
tabIds == {tabs[i].id : i \in 1..Len(tabs)}

\* the Tab Store as a user sees it, for the history variable savedStore
storeView(s) ==
  [tabs |-> [i \in 1..Len(s.tabs) |->
               LET t == s.tabs[i]
               IN [id |-> t.id, filePath |-> t.filePath, text |-> authText(s, t),
                   isDirty |-> t.isDirty, scrollTop |-> t.scrollTop,
                   selectionMain |-> t.selectionMain,
                   lastSavedContent |-> OrEmpty(t.lastSavedContent)]],
   activeTabId |-> s.active,
   nextTabId |-> s.next]

NoBoot == [src |-> "none", data |-> <<>>, lsBefore |-> <<>>, origin |-> <<>>, saved |-> <<>>]

\* memory of a process that has just been launched (module top level of app.js)
MemInit ==
  /\ tabs = <<>>
  /\ activeTabId = Null
  /\ nextTabId = 1
  /\ tabAccessOrder = <<>>
  /\ view = makeEditorState("")
  /\ closeCalls = <<>>
  /\ sessionSavePending = FALSE
  /\ issued = {}

\* ---- startup() ----

\* restoreSession resumes after idbGet, and startup() runs on to getPendingFile;
\* when renderPreviewImmediate throws on a restored tab without content,
\* startup() rejects there and goes no further
StartupRestore(readOk) ==
  /\ phase = "restoring"
  /\ LET r == restoreRead(readOk)
         s == startupAfterRestore(Cur, r.data)
         threw == /\ restorable(r.data)
                  /\ findTab(s.tabs, s.active).content = Undef
     IN /\ Commit(s)
        /\ phase' = IF threw THEN "startupFailed" ELSE "pendingFile"
        /\ op' = [Op("restore", Null) EXCEPT !.threw = threw]
        /\ lsSession' = r.ls
        /\ lsOrigin' = IF r.ls = <<>> THEN <<>> ELSE lsOrigin
        /\ bootLog' = [src |-> IF restorable(r.data) THEN r.src ELSE "none",
                       data |-> r.data, lsBefore |-> lsSession, origin |-> lsOrigin,
                       saved |-> savedStore]
  /\ UNCHANGED <<closeCalls, idb, idbWrites, restarts, reloadDue, edits, writes, savedStore>>

\* startup() resumes after getPendingFile with no pending file
StartupNoPending ==
  /\ phase = "pendingFile"
  /\ phase' = "running"
  /\ op' = Op("started", Null)
  /\ evictLog' = NoEvict
  /\ UNCHANGED <<tabVars, storeVars, restarts, reloadDue, edits, writes, bootLog, savedStore, lsOrigin>>

\* startup() resumes after getPendingFile with a pending file
StartupPending(idCap, filePath, content, scroll) ==
  /\ phase = "pendingFile"
  /\ findByPath(tabs, filePath) # Null \/ nextTabId <= idCap
  /\ Commit(openInTab(Cur, filePath, content, scroll))
  /\ phase' = "running"
  /\ op' = Op("startedWithFile", Null)
  /\ UNCHANGED <<closeCalls, storeVars, restarts, reloadDue, edits, writes, bootLog, savedStore, lsOrigin>>

\* ---- user and OS events ----

\* the 'file-opened' listener; it is registered before startup() is called
FileOpened(idCap, filePath, content, scroll) ==
  /\ findByPath(tabs, filePath) # Null \/ nextTabId <= idCap
  /\ Commit(openInTab(Cur, filePath, content, scroll))
  /\ op' = Op("fileOpened", Null)
  /\ UNCHANGED <<closeCalls, storeVars, procVars, bootLog, savedStore, lsOrigin>>

HandleNew(idCap, scroll) ==
  /\ phase = "running"
  /\ nextTabId <= idCap
  /\ Commit(handleNew(Cur, scroll))
  /\ op' = Op("new", Null)
  /\ UNCHANGED <<closeCalls, storeVars, procVars, bootLog, savedStore, lsOrigin>>

HandleOpen(idCap, filePath, content, scroll) ==
  /\ phase = "running"
  /\ findByPath(tabs, filePath) # Null \/ nextTabId <= idCap
  /\ Commit(handleOpen(Cur, filePath, content, scroll))
  /\ op' = Op("open", Null)
  /\ UNCHANGED <<closeCalls, storeVars, procVars, bootLog, savedStore, lsOrigin>>

\* click on a tab of the tab bar
ActivateTab(tabId, scroll) ==
  /\ phase = "running"
  /\ tabId \in tabIds
  /\ tabId # activeTabId
  /\ Commit(activateTab(Cur, tabId, scroll))
  /\ op' = Op("activate", Null)
  /\ UNCHANGED <<closeCalls, storeVars, procVars, bootLog, savedStore, lsOrigin>>

CycleTab(direction, scroll) ==
  /\ phase = "running"
  /\ Len(tabs) > 1
  /\ Commit(cycleTab(Cur, direction, scroll))
  /\ op' = Op("activate", Null)
  /\ UNCHANGED <<closeCalls, storeVars, procVars, bootLog, savedStore, lsOrigin>>

\* the user changes the document: the text becomes newText, the cursor ends
\* behind it
Edit(maxEdits, newText) ==
  /\ phase = "running"
  /\ edits < maxEdits
  /\ newText # view.doc
  /\ Commit(updateListener([Cur EXCEPT !.view.doc = newText,
                                       !.view.selection = Sel(TextLen(newText))],
                            TRUE, FALSE))
  /\ edits' = edits + 1
  /\ op' = Op("edit", Null)
  /\ UNCHANGED <<closeCalls, storeVars, phase, restarts, reloadDue, writes, bootLog, savedStore, lsOrigin>>

\* ---- closeTab ----

\* closeTab(tabId) up to the confirmation; a clean tab is closed at once
CloseTab(maxPending, tabId, scroll) ==
  /\ phase = "running"
  /\ tabId \in tabIds
  /\ LET s1 == IF tabId = activeTabId THEN snapshotCurrentTab(Cur, scroll) ELSE Cur
     IN IF findTab(tabs, tabId).isDirty
          THEN /\ Len(closeCalls) < maxPending
               /\ Commit(s1)
               /\ closeCalls' = Append(closeCalls, tabId)
               /\ op' = Op("closeAsk", tabId)
          ELSE /\ Commit(closeTabFinish(s1, tabId, scroll).st)
               /\ closeCalls' = closeCalls
               /\ op' = Op("closed", tabId)
  /\ UNCHANGED <<storeVars, procVars, bootLog, savedStore, lsOrigin>>

\* confirmClose resolves and closeTab resumes
CloseResolve(k, shouldClose, scroll) ==
  /\ k \in 1..Len(closeCalls)
  /\ LET r == closeTabResume(Cur, closeCalls[k], shouldClose, scroll)
     IN /\ Commit(r.st)
        /\ op' = [name |-> IF shouldClose THEN "closeConfirmed" ELSE "closeDeclined",
                  id |-> closeCalls[k], threw |-> r.thrown]
  /\ closeCalls' = splice1(closeCalls, k - 1)
  /\ UNCHANGED <<storeVars, procVars, bootLog, savedStore, lsOrigin>>

\* ---- session save timer ----

\* idbSet('session', null) of resetAllSettings, as an entry of idbWrites
NullPut == [data |-> <<>>, view |-> <<>>]

\* saveSession() runs from sessionSaveTimer: it snapshots the active tab, clears
\* the timer and starts idbSet('session', data).  dbOpens: indexedDB.open hands
\* back a request, so the put settles in a later task (IdbWriteSettles) and the
\* stores are untouched when the callback returns.  ~dbOpens: indexedDB.open
\* throws inside openDB's executor, the promise is rejected at once and the
\* .catch fallback runs in the microtasks of the same task.  fallbackOk:
\* localStorage.setItem does not throw.
SaveSession(maxWrites, scroll, dbOpens, fallbackOk) ==
  /\ sessionSavePending
  /\ (dbOpens \/ fallbackOk) => writes + Len(SelectSeq(idbWrites, LAMBDA w : w # NullPut)) < maxWrites
  /\ LET s1 == snapshotCurrentTab(Cur, scroll)
         data == sessionData(s1)
     IN /\ Commit([s1 EXCEPT !.savePending = FALSE])
        /\ idbWrites' = IF dbOpens
                          THEN Append(idbWrites, [data |-> <<data>>, view |-> <<storeView(s1)>>])
                          ELSE idbWrites
        /\ lsSession' = IF ~dbOpens /\ fallbackOk THEN JSONstringify(data) ELSE lsSession
        /\ lsOrigin' = IF ~dbOpens /\ fallbackOk THEN <<data>> ELSE lsOrigin
  /\ writes' = IF ~dbOpens /\ fallbackOk THEN writes + 1 ELSE writes
  /\ op' = Op("saveSession", Null)
  /\ UNCHANGED <<closeCalls, idb, savedStore, phase, restarts, reloadDue, edits, bootLog>>

\* the oldest idbSet('session', value) settles.  ok: the transaction completes
\* and the entry holds the value (restoreSession treats null as no entry);
\* ~ok: the open or the transaction fails; saveSession's .catch then writes
\* the data to localStorage (fallbackOk: setItem does not throw), the .catch
\* of resetAllSettings does nothing
IdbWriteSettles(ok, fallbackOk) ==
  /\ idbWrites # <<>>
  /\ LET w == Head(idbWrites)
         falls == ~ok /\ fallbackOk /\ w.data # <<>>
     IN /\ idb' = IF ok THEN w.data ELSE idb
        /\ savedStore' = IF ok THEN w.view ELSE savedStore
        /\ lsSession' = IF falls THEN JSONstringify(w.data[1]) ELSE lsSession
        /\ lsOrigin' = IF falls THEN w.data ELSE lsOrigin
        /\ writes' = IF w.data # <<>> /\ (ok \/ fallbackOk) THEN writes + 1 ELSE writes
        /\ op' = Op(IF w.data = <<>> THEN (IF ok THEN "sessionCleared" ELSE "sessionClearFailed")
                    ELSE IF ok THEN "sessionStored" ELSE "sessionStoreFailed", Null)
  /\ idbWrites' = Tail(idbWrites)
  /\ UNCHANGED <<tabVars, phase, restarts, reloadDue, edits, evictLog, bootLog>>

\* ---- process ----

\* the window's state after a quit or a reload: nothing is open, startup() is
\* about to call restoreSession; a put that has not settled when the page
\* goes away is lost
processRestarts(maxRestarts, opName) ==
  /\ phase = "running"
  /\ restarts < maxRestarts
  /\ tabs' = <<>>
  /\ activeTabId' = Null
  /\ nextTabId' = 1
  /\ issued' = {}
  /\ tabAccessOrder' = <<>>
  /\ view' = makeEditorState("")
  /\ closeCalls' = <<>>
  /\ sessionSavePending' = FALSE
  /\ phase' = "restoring"
  /\ restarts' = restarts + 1
  /\ reloadDue' = FALSE
  /\ op' = Op(opName, Null)
  /\ evictLog' = NoEvict
  /\ bootLog' = NoBoot
  /\ idbWrites' = <<>>
  /\ UNCHANGED <<idb, lsSession, savedStore, lsOrigin, edits, writes>>

\* the application is quit and launched again; the durable stores survive
Relaunch(maxRestarts) == processRestarts(maxRestarts, "relaunch")

\* menu action resetSettings: resetAllSettings().  confirmed: the user
\* accepts the confirm() dialog; "cogmd-session" is then removed from
\* localStorage, idbSet('session', null) is started (dbOpens: indexedDB.open
\* hands back a request; else the rejection is swallowed) and
\* location.reload() starts the navigation.  The page runs its callbacks
\* until it is unloaded (PageReloads).
ResetAllSettings(maxRestarts, maxPuts, confirmed, dbOpens) ==
  /\ phase = "running"
  /\ IF ~confirmed
       THEN UNCHANGED appVars
       ELSE /\ restarts < maxRestarts
            /\ dbOpens => Len(SelectSeq(idbWrites, LAMBDA w : w = NullPut)) < maxPuts
            /\ lsSession' = <<>>
            /\ lsOrigin' = <<>>
            /\ idbWrites' = IF dbOpens THEN Append(idbWrites, NullPut) ELSE idbWrites
            /\ reloadDue' = TRUE
            /\ op' = Op("resetSettings", Null)
            /\ UNCHANGED <<tabVars, idb, phase, restarts, edits, writes,
                           evictLog, bootLog, savedStore>>

\* the navigation started by location.reload() unloads the page and loads
\* it again
PageReloads(maxRestarts) ==
  /\ reloadDue
  /\ processRestarts(maxRestarts, "reload")

\* ========================================================================
\* Right pane: preview, diff view, debounce timers (app.js, diff-view.js)
\* ========================================================================
MaxTabIdRender == 2      \* ids handed out by createTab in SpecRender
MaxEditsRender == 2      \* document changes in SpecRender
MaxImportWaiters == 2    \* async functions suspended at import('./diff-view.js')

TimerKinds == {"preview", "diff", "save"}
NoTimer == 0
NoPreview == [kind |-> "empty", text |-> ""]
LargeMsg == [kind |-> "largeMsg", text |-> ""]
NoDiff == [kind |-> "empty", cur |-> "", base |-> ""]

\* the pane state a handler works on; fx collects what the handler does
Pane ==
  [layout |-> layoutMode, right |-> rightPaneContent, large |-> isLargeFile,
   handle |-> timerHandle, pending |-> pendingFires,
   preview |-> previewShown, diff |-> diffShown,
   loaded |-> diffViewLoaded, waiters |-> importWaiters,
   shiki |-> shikiReady, display |-> display, fx |-> {}]

\* the tab store and the editor as the handler has left them
CurAfter == [tabs |-> tabs', active |-> activeTabId', view |-> view']

\* ---- timers ----

\* a timer id is opaque and never handed out twice while in use; here it is
\* the smallest number that no pending fire of the same kind holds
freshTimerId(r, kind) ==
  LET used == {p.id : p \in {q \in r.pending : q.kind = kind}}
  IN CHOOSE n \in 1..(Cardinality(used) + 1) :
       /\ n \notin used
       /\ \A m \in 1..(n - 1) : m \in used

\* if (timer) clearTimeout(timer)
clearTimer(r, kind) ==
  IF r.handle[kind] = NoTimer THEN r
  ELSE [r EXCEPT !.pending = r.pending \ {[kind |-> kind, id |-> r.handle[kind]]}]

\* timer = setTimeout(callback, delay)
setTimer(r, kind) ==
  LET id == freshTimerId(r, kind)
  IN [r EXCEPT !.handle[kind] = id,
               !.pending = r.pending \cup {[kind |-> kind, id |-> id]},
               !.fx = r.fx \cup {<<"armed", kind>>}]

\* mutant: the earlier timer is left running
rearm_keepEarlier(r, kind) == setTimer(r, kind)

\* the two statements together
rearm(r, kind) == setTimer(clearTimer(r, kind), kind)

\* mutant: the flag is not consulted
schedulePreviewRender_always(r) == rearm(r, "preview")

schedulePreviewRender(r) ==
  IF r.large THEN r ELSE rearm(r, "preview")

scheduleDiffRender(r) == rearm(r, "diff")

\* scheduleSessionSave(), the timer itself
armSessionSave(r) == rearm(r, "save")

\* the fire of this timer leaves the pending set (the handle keeps the id)
takeFire(r, kind, id) ==
  [r EXCEPT !.pending = r.pending \ {[kind |-> kind, id |-> id]}]

\* ---- rendering ----

checkLargeFile(r, length) == [r EXCEPT !.large = length > LARGE_FILE_THRESHOLD]

renderPreview(r, text) ==
  [r EXCEPT !.preview = [kind |-> "html", text |-> text],
            !.fx = r.fx \cup {<<"rendered", "preview">>}]

renderPreviewImmediate(r, text) ==
  LET r1 == checkLargeFile(r, TextLen(text))
  IN IF r1.large
       THEN [r1 EXCEPT !.preview = LargeMsg, !.fx = r1.fx \cup {<<"largeMsg", "preview">>}]
       ELSE renderPreview(r1, text)

\* diff-view.js
getDiffBase(tab) == OrEmpty(tab.lastSavedContent)

renderDiff(r, currentText, baseText) ==
  [r EXCEPT !.diff = [kind |-> "diff", cur |-> currentText, base |-> baseText],
            !.fx = r.fx \cup {<<"rendered", "diff">>}]

destroyDiff(r) == [r EXCEPT !.diff = NoDiff]

inDiffMode(r) == r.layout = "split" /\ r.right = "diff"

\* activateTab and the reuse branch of handleOpen, after the editor holds
\* the tab: "if (layoutMode === 'split' && rightPaneContent === 'diff')"
showTab(r, s, content) ==
  IF inDiffMode(r) THEN scheduleDiffRender(r) ELSE renderPreviewImmediate(r, content)

\* renderTabBar(); it reads the tab store only, so where a handler calls it
\* among its pane operations makes no difference to the pane
renderTabBar(r) == [r EXCEPT !.fx = @ \cup {<<"rendered", "tabBar">>}]

\* the tail of the updateListener
notifyDocChanged(r) ==
  armSessionSave(IF inDiffMode(r) THEN scheduleDiffRender(r) ELSE schedulePreviewRender(r))

\* the updateListener on the pane's side, for an update with docChanged; s
\* is the tab store before the update: "if (!wasDirty) renderTabBar()"
listenerEffects(r, s, switching) ==
  IF switching THEN r
  ELSE notifyDocChanged(IF hasTab(s.tabs, s.active) /\ ~findTab(s.tabs, s.active).isDirty
                          THEN renderTabBar(r)
                          ELSE r)

\* the callback of diffRenderTimer after its import
diffTimerBody(r, s) ==
  IF ~hasTab(s.tabs, s.active) THEN r
  ELSE renderDiff(r, s.view.doc, getDiffBase(findTab(s.tabs, s.active)))

\* the elements of the right pane as the style sheet shows them
AllShown == [pane |-> TRUE, preview |-> TRUE, diff |-> TRUE]

\* applyView from "Reset visibility" to its import: previewPane is shown
\* again, then hidden for 'single'; for 'split' one of previewContent and
\* diffContent is hidden and the other shown
applyViewStyles(r, layout, rightPane) ==
  IF layout = "single" THEN [r EXCEPT !.display.pane = FALSE]
  ELSE IF rightPane = "preview"
    THEN [r EXCEPT !.display = [pane |-> TRUE, preview |-> TRUE, diff |-> FALSE]]
  ELSE [r EXCEPT !.display = [pane |-> TRUE, preview |-> FALSE, diff |-> TRUE]]

\* 'single' after its import: "diffContent.style.display = 'none';
\* previewContent.style.display = ''"
hideDiffContent(r) == [r EXCEPT !.display.preview = TRUE, !.display.diff = FALSE]

\* applyView after its import
applyViewRest(r, s, layout, rightPane) ==
  IF layout = "single" THEN hideDiffContent(destroyDiff(r))
  ELSE IF rightPane = "preview" THEN renderPreviewImmediate(destroyDiff(r), s.view.doc)
  ELSE IF hasTab(s.tabs, s.active)
    THEN renderDiff(r, s.view.doc, getDiffBase(findTab(s.tabs, s.active)))
  ELSE r

DiffTimerWaiter == [kind |-> "diffTimer", layout |-> "", right |-> ""]

resumeWaiter(r, s, w) ==
  IF w.kind = "diffTimer" THEN diffTimerBody(r, s)
  ELSE applyViewRest(r, s, w.layout, w.right)

\* await import('./diff-view.js'): the function goes on at once when the
\* module is there, else it waits for it
awaitImport(r, s, w) ==
  IF r.loaded THEN resumeWaiter(r, s, w)
  ELSE [r EXCEPT !.waiters = Append(r.waiters, w)]

RECURSIVE resumeAll(_, _, _, _)
resumeAll(r, s, ws, k) ==
  IF k > Len(ws) THEN r
  ELSE resumeAll(resumeWaiter(r, s, ws[k]), s, ws, k + 1)

\* applyView(layout, rightPane)
applyView(r, s, layout, rightPane) ==
  LET l == IF layout \notin {"single", "split"} THEN "split" ELSE layout
      rp == IF rightPane \notin {"preview", "diff"} THEN "preview" ELSE rightPane
  IN awaitImport(applyViewStyles([r EXCEPT !.layout = l, !.right = rp], l, rp), s,
                 [kind |-> "applyView", layout |-> l, right |-> rp])

\* ---- actions ----

CommitPane(r) ==
  /\ layoutMode' = r.layout
  /\ rightPaneContent' = r.right
  /\ isLargeFile' = r.large
  /\ timerHandle' = r.handle
  /\ pendingFires' = r.pending
  /\ previewShown' = r.preview
  /\ diffShown' = r.diff
  /\ diffViewLoaded' = r.loaded
  /\ importWaiters' = r.waiters
  /\ shikiReady' = r.shiki
  /\ display' = r.display
  /\ fx' = r.fx

\* module top level: layoutMode and rightPaneContent come from localStorage
PaneLoaded(layout, rightPane) ==
  /\ layoutMode = layout
  /\ rightPaneContent = rightPane
  /\ isLargeFile = FALSE
  /\ timerHandle = [k \in TimerKinds |-> NoTimer]
  /\ pendingFires = {}
  /\ previewShown = NoPreview
  /\ diffShown = NoDiff
  /\ diffViewLoaded = FALSE
  /\ importWaiters = <<>>
  /\ shikiReady = FALSE
  /\ display = AllShown
  /\ fx = {}

PaneIdle == PaneLoaded("split", "preview")

\* startup(): restoreSession renders the restored tab; applyView is called
\* (neither happens when restoreSession threw in renderPreviewImmediate)
PaneStartupRestore(readOk) ==
  /\ StartupRestore(readOk)
  /\ LET r1 == IF restorable(restoreRead(readOk).data)
                 THEN renderPreviewImmediate(renderTabBar(Pane), view'.doc)
                 ELSE renderTabBar(Pane)
     IN IF op'.threw THEN CommitPane(Pane)
        ELSE CommitPane(applyView(r1, CurAfter, layoutMode, rightPaneContent))

PaneStartupNoPending ==
  /\ StartupNoPending
  /\ CommitPane(Pane)

\* a handler that ends in activateTab: the pane follows when the tab changed
paneAfterSwitch ==
  IF activeTabId' # activeTabId
    THEN armSessionSave(showTab(renderTabBar(listenerEffects(Pane, Cur, TRUE)),
                                CurAfter, view'.doc))
    ELSE Pane

PaneHandleNew ==
  /\ HandleNew(MaxTabIdRender, 0)
  /\ CommitPane(paneAfterSwitch)

PaneFileOpened(filePath, content) ==
  /\ phase = "running"
  /\ FileOpened(MaxTabIdRender, filePath, content, 0)
  /\ CommitPane(paneAfterSwitch)

PaneActivateTab(tabId) ==
  /\ ActivateTab(tabId, 0)
  /\ CommitPane(paneAfterSwitch)

\* handleOpen once the dialog has returned a file: the reuse branch renders
\* the loaded text, every other branch ends in activateTab
PaneHandleOpen(filePath, content) ==
  /\ HandleOpen(MaxTabIdRender, filePath, content, 0)
  /\ CommitPane(IF findByPath(tabs, filePath) = Null /\ reusesActiveTab(Cur)
                  THEN armSessionSave(showTab(renderTabBar(listenerEffects(Pane, Cur, TRUE)),
                                              CurAfter, content))
                  ELSE paneAfterSwitch)

PaneEdit(newText) ==
  /\ Edit(MaxEditsRender, newText)
  /\ CommitPane(listenerEffects(Pane, Cur, FALSE))

\* menu actions viewSingle .. viewDiff, layout and right-pane buttons
ApplyView(layout, rightPane) ==
  /\ phase = "running"
  /\ diffViewLoaded \/ Len(importWaiters) < MaxImportWaiters
  /\ CommitPane(applyView(Pane, Cur, layout, rightPane))
  /\ op' = Op("applyView", Null)
  /\ UNCHANGED <<tabVars, storeVars, procVars, evictLog, bootLog, savedStore, lsOrigin>>

\* the module arrives: the functions waiting for it go on in call order
ModuleLoaded ==
  /\ ~diffViewLoaded
  /\ Len(importWaiters) > 0
  /\ CommitPane(resumeAll([Pane EXCEPT !.loaded = TRUE, !.waiters = <<>>],
                          Cur, importWaiters, 1))
  /\ op' = Op("moduleLoaded", Null)
  /\ UNCHANGED <<tabVars, storeVars, procVars, evictLog, bootLog, savedStore, lsOrigin>>

PreviewTimerFires ==
  /\ \E p \in pendingFires :
       /\ p.kind = "preview"
       /\ CommitPane(renderPreview(takeFire(Pane, "preview", p.id), view.doc))
  /\ op' = Op("previewTimer", Null)
  /\ UNCHANGED <<tabVars, storeVars, procVars, evictLog, bootLog, savedStore, lsOrigin>>

DiffTimerFires ==
  /\ diffViewLoaded \/ Len(importWaiters) < MaxImportWaiters
  /\ \E p \in pendingFires :
       /\ p.kind = "diff"
       /\ CommitPane(awaitImport(takeFire(Pane, "diff", p.id), Cur, DiffTimerWaiter))
  /\ op' = Op("diffTimer", Null)
  /\ UNCHANGED <<tabVars, storeVars, procVars, evictLog, bootLog, savedStore, lsOrigin>>

\* sessionSaveTimer fires: saveSession; both durable stores reject the write
SaveTimerFires ==
  /\ \E p \in pendingFires :
       /\ p.kind = "save"
       /\ CommitPane(takeFire(Pane, "save", p.id))
  /\ SaveSession(0, 0, FALSE, FALSE)

\* menu action refreshPreview
RefreshPreview ==
  /\ phase = "running"
  /\ CommitPane(renderPreview([Pane EXCEPT !.large = FALSE], view.doc))
  /\ op' = Op("refreshPreview", Null)
  /\ UNCHANGED <<tabVars, storeVars, procVars, evictLog, bootLog, savedStore, lsOrigin>>

\* initShiki() has loaded the highlighter
ShikiReady ==
  /\ phase = "running"
  /\ ~shikiReady
  /\ CommitPane(schedulePreviewRender([Pane EXCEPT !.shiki = TRUE]))
  /\ op' = Op("shikiReady", Null)
  /\ UNCHANGED <<tabVars, storeVars, procVars, evictLog, bootLog, savedStore, lsOrigin>>

\* ========================================================================
\* Saving to files (app.js handleSave, handleSaveAs)
\* ========================================================================
MaxTabIdSave == 2      \* ids handed out by createTab in SpecSave
MaxEditsSave == 2      \* document changes in SpecSave
MaxSaveCalls == 1      \* handleSave / handleSaveAs calls suspended at once

DiskPaths == {"/p", "/q"}
\* what the save dialog can return: null (cancelled) or the chosen path
DialogResults == {NoPath, "/q"}

\* module top level
SaveIdle ==
  /\ currentFilePath = NoPath
  /\ saveCalls = <<>>
  /\ disk = [p \in DiskPaths |-> Undef]
  /\ origin = <<>>

\* history: the tab with this id has been loaded from, or saved to, path
\* with this text
loaded(o, id, text, path) == (id :> [text |-> text, path |-> path]) @@ o

\* the main process has not answered the call yet
NoReply == "<pending>"
\* the 'save-file' handler returned true
ReplyTrue == "true"
\* fs.writeFileSync threw in the 'save-file' handler: the invoke is rejected
ReplyRejected == "<rejected>"

\* fs.writeFileSync threw before the file was opened: the file is as it was
NotOpened == "<not opened>"
\* what reaches the renderer as the result of saveFileAs
SaveAsReplies == DialogResults \cup {ReplyRejected}
\* what fs.writeFileSync can leave in a file when the texts are Texts
WrittenTexts == {NotOpened} \cup Texts

\* the texts p with text.startsWith(p); "big-" is the start of a large
\* document, shorter than the document
prefixesOf(text) ==
  IF text = "" THEN {""}
  ELSE IF text = BigText THEN {"", "big-", BigText}
  ELSE IF text = BigTextEdited THEN {"", "big-", BigText, BigTextEdited}
  ELSE {"", text}

\* what fs.writeFileSync(path, text) can leave in the file: the text when it
\* returns; when it throws, the file untouched (the open failed) or, the file
\* having been opened with truncation, as much of the text as was written
writeOutcomes(text, ok) ==
  IF ok THEN {text} ELSE {NotOpened} \cup prefixesOf(text)

\* a suspended call: what it captured before its await, and the reply of the
\* main process once it is on its way to the renderer ('save-file': true or
\* the rejection; 'save-file-as': the chosen path, or null as NoPath)
SaveFileCall(tabId, path, content) ==
  [kind |-> "save", tabId |-> tabId, path |-> path, content |-> content,
   reply |-> NoReply]
SaveAsCall(tabId, content) ==
  [kind |-> "saveAs", tabId |-> tabId, path |-> NoPath, content |-> content,
   reply |-> NoReply]

\* handleSave() up to its await: "const tab = tabs.find(...)" gives the tab
\* object, or undefined
handleSaveCall(s, path) ==
  LET tabId == IF hasTab(s.tabs, s.active) THEN s.active ELSE Null
  IN IF path # NoPath
       THEN SaveFileCall(tabId, path, s.view.doc)
       ELSE SaveAsCall(tabId, s.view.doc)

\* handleSave() after "await window.api.saveFile(currentFilePath, content)":
\* the tab object found before the await is updated (a closed tab is no
\* longer in the store)
handleSaveResume(s, c) ==
  LET s1 == IF c.tabId # Null /\ hasTab(s.tabs, c.tabId)
              THEN LET i == findIndex(s.tabs, c.tabId) + 1
                   IN [s EXCEPT !.tabs[i].isDirty = FALSE,
                                !.tabs[i].lastSavedContent = c.content]
              ELSE s
  IN scheduleSessionSave(s1)

\* handleSaveAs() after "await window.api.saveFileAs(content)": the tab that
\* is active now is updated
handleSaveAsResume(s, c, filePath) ==
  IF filePath = NoPath THEN s
  ELSE LET s1 == IF hasTab(s.tabs, s.active)
                   THEN LET i == findIndex(s.tabs, s.active) + 1
                        IN [s EXCEPT !.tabs[i].filePath = filePath,
                                     !.tabs[i].isDirty = FALSE,
                                     !.tabs[i].lastSavedContent = c.content]
                   ELSE s
       IN scheduleSessionSave(s1)

\* the sequence without its k-th element
dropAt(seq, k) == SubSeq(seq, 1, k - 1) \o SubSeq(seq, k + 1, Len(seq))

\* ---- actions ----

\* currentFilePath after a handler that ends in activateTab
pathAfterSwitch ==
  IF activeTabId' # activeTabId /\ hasTab(tabs', activeTabId')
    THEN findTab(tabs', activeTabId').filePath
    ELSE currentFilePath

\* startup() without a stored session: createTab(null, ''), currentFilePath = null
SaveStartupRestore ==
  /\ StartupRestore(TRUE)
  /\ currentFilePath' = NoPath
  /\ origin' = loaded(origin, nextTabId, "", NoPath)
  /\ UNCHANGED <<saveCalls, disk>>

SaveStartupNoPending ==
  /\ StartupNoPending
  /\ UNCHANGED saveVars

SaveHandleNew ==
  /\ HandleNew(MaxTabIdSave, 0)
  /\ currentFilePath' = pathAfterSwitch
  /\ origin' = loaded(origin, nextTabId, "", NoPath)
  /\ UNCHANGED <<saveCalls, disk>>

\* handleOpen() once the dialog has returned a file: an open tab has it, or
\* the untouched empty tab takes it, or a new tab is made
SaveHandleOpen(filePath, content) ==
  /\ HandleOpen(MaxTabIdSave, filePath, content, 0)
  /\ IF findByPath(tabs, filePath) # Null
       THEN /\ currentFilePath' = pathAfterSwitch
            /\ origin' = origin
       ELSE IF nextTabId' = nextTabId
         THEN /\ currentFilePath' = filePath
              /\ origin' = loaded(origin, activeTabId, content, filePath)
         ELSE /\ currentFilePath' = pathAfterSwitch
              /\ origin' = loaded(origin, nextTabId, content, filePath)
  /\ UNCHANGED <<saveCalls, disk>>

SaveActivateTab(tabId) ==
  /\ ActivateTab(tabId, 0)
  /\ currentFilePath' = pathAfterSwitch
  /\ UNCHANGED <<saveCalls, disk, origin>>

SaveEdit(newText) ==
  /\ Edit(MaxEditsSave, newText)
  /\ UNCHANGED saveVars

\* menu action save: handleSave() up to its await
HandleSave ==
  /\ phase = "running"
  /\ Len(saveCalls) < MaxSaveCalls
  /\ saveCalls' = Append(saveCalls, handleSaveCall(Cur, currentFilePath))
  /\ op' = Op("save", Null)
  /\ UNCHANGED <<tabVars, storeVars, procVars, evictLog, bootLog, savedStore, lsOrigin,
                 currentFilePath, disk, origin>>

\* menu action saveAs: handleSaveAs() up to its await
HandleSaveAs ==
  /\ phase = "running"
  /\ Len(saveCalls) < MaxSaveCalls
  /\ saveCalls' = Append(saveCalls, handleSaveCall(Cur, NoPath))
  /\ op' = Op("saveAs", Null)
  /\ UNCHANGED <<tabVars, storeVars, procVars, evictLog, bootLog, savedStore, lsOrigin,
                 currentFilePath, disk, origin>>

\* the main process handles 'save-file': fs.writeFileSync writes the file and
\* the handler returns true, or the write throws, leaving `written` in the
\* file, and the invoke is rejected; the renderer has not seen the reply yet
BackendSaveFile(k, ok, written) ==
  /\ k \in 1..Len(saveCalls)
  /\ saveCalls[k].kind = "save"
  /\ saveCalls[k].reply = NoReply
  /\ written \in writeOutcomes(saveCalls[k].content, ok)
  /\ disk' = IF written = NotOpened THEN disk
               ELSE [disk EXCEPT ![saveCalls[k].path] = written]
  /\ saveCalls' = [saveCalls EXCEPT ![k].reply = IF ok THEN ReplyTrue ELSE ReplyRejected]
  /\ op' = Op(IF ok THEN "fileWritten" ELSE "fileWriteFailed", Null)
  /\ UNCHANGED <<tabVars, storeVars, procVars, evictLog, bootLog, savedStore, lsOrigin,
                 currentFilePath, origin>>

\* the main process handles 'save-file-as': the user cancels the dialog and
\* the handler returns null (filePath = NoPath), or the dialog returns the
\* path the user picked and fs.writeFileSync writes the file and the handler
\* returns the path, or the write throws, leaving `written` in the file, and
\* the invoke is rejected; the renderer has not seen the reply yet
BackendSaveAs(k, filePath, ok, written) ==
  /\ k \in 1..Len(saveCalls)
  /\ saveCalls[k].kind = "saveAs"
  /\ saveCalls[k].reply = NoReply
  /\ IF filePath = NoPath
       THEN /\ ok
            /\ written = NotOpened
            /\ disk' = disk
       ELSE /\ written \in writeOutcomes(saveCalls[k].content, ok)
            /\ disk' = IF written = NotOpened THEN disk
                         ELSE [disk EXCEPT ![filePath] = written]
  /\ saveCalls' = [saveCalls EXCEPT ![k].reply = IF ok THEN filePath ELSE ReplyRejected]
  /\ op' = Op(IF ~ok THEN "fileWriteFailed"
              ELSE IF filePath # NoPath THEN "fileWrittenAs" ELSE "saveDialogCancelled", Null)
  /\ UNCHANGED <<tabVars, storeVars, procVars, evictLog, bootLog, savedStore, lsOrigin,
                 currentFilePath, origin>>

\* the reply of 'save-file' reaches the renderer: handleSave goes on after
\* its await, or ends with the rejection
SaveFileSettles(k, ok) ==
  /\ k \in 1..Len(saveCalls)
  /\ saveCalls[k].kind = "save"
  /\ saveCalls[k].reply = IF ok THEN ReplyTrue ELSE ReplyRejected
  /\ LET c == saveCalls[k]
     IN /\ Commit(IF ok THEN handleSaveResume(Cur, c) ELSE Cur)
        /\ origin' = IF ok /\ c.tabId # Null
                       THEN loaded(origin, c.tabId, c.content, c.path)
                       ELSE origin
  /\ saveCalls' = dropAt(saveCalls, k)
  /\ op' = Op(IF ok THEN "saved" ELSE "saveFailed", Null)
  /\ UNCHANGED <<closeCalls, storeVars, procVars, bootLog, savedStore, lsOrigin,
                 currentFilePath, disk>>

\* the reply of 'save-file-as' reaches the renderer: handleSaveAs goes on
\* after its await with the path or with null (reply = NoPath), or ends with
\* the rejection (reply = ReplyRejected)
SaveAsSettles(k, reply) ==
  /\ k \in 1..Len(saveCalls)
  /\ saveCalls[k].kind = "saveAs"
  /\ saveCalls[k].reply = reply
  /\ LET c == saveCalls[k]
         done == reply \notin {NoPath, ReplyRejected}
     IN /\ Commit(IF reply = ReplyRejected THEN Cur ELSE handleSaveAsResume(Cur, c, reply))
        /\ origin' = IF done /\ c.tabId # Null
                       THEN loaded(origin, c.tabId, c.content, reply)
                       ELSE origin
        /\ currentFilePath' = IF done THEN reply ELSE currentFilePath
  /\ saveCalls' = dropAt(saveCalls, k)
  /\ op' = Op(IF reply = ReplyRejected THEN "saveAsFailed"
              ELSE IF reply # NoPath THEN "savedAs" ELSE "saveAsCancelled", Null)
  /\ UNCHANGED <<closeCalls, storeVars, procVars, bootLog, savedStore, lsOrigin, disk>>

\* ---- the save handlers with what they do to the right pane ----

\* handleSave / handleSaveAs up to their await touch neither pane nor timers
PaneHandleSave ==
  /\ HandleSave
  /\ CommitPane(Pane)

\* after the await: updateTitle(), renderTabBar(), scheduleSessionSave();
\* neither preview nor diff is rendered or scheduled
afterSavePane(r) == armSessionSave(renderTabBar(r))

\* the main process writes the file: nothing happens in the renderer
PaneBackendSaveFile(k, ok, written) ==
  /\ BackendSaveFile(k, ok, written)
  /\ CommitPane(Pane)

PaneBackendSaveAs(k, filePath, ok, written) ==
  /\ BackendSaveAs(k, filePath, ok, written)
  /\ CommitPane(Pane)

PaneSaveFileSettles(k, ok) ==
  /\ SaveFileSettles(k, ok)
  /\ CommitPane(IF ok THEN afterSavePane(Pane) ELSE Pane)

PaneSaveAsSettles(k, reply) ==
  /\ SaveAsSettles(k, reply)
  /\ CommitPane(IF reply \notin {NoPath, ReplyRejected} THEN afterSavePane(Pane) ELSE Pane)
\* ------------------------------------------------------------------------
\* Diff harness: draw the inputs, apply diffLines once
\* ------------------------------------------------------------------------
\* computeUnifiedDiff is not called
HunksIdle ==
  /\ textOld = <<>>
  /\ textNew = <<>>
  /\ contextLines = 0
  /\ hunks = <<>>
  /\ container = <<>>

DiffInit ==
  /\ oldLines \in SeqsUpTo(LineAlphabet, MaxLen)
  /\ newLines \in SeqsUpTo(LineAlphabet, MaxLen)
  /\ ceiling \in {LCS_CEILING, SmallCeiling}
  /\ ops = <<>>
  /\ dpc = "input"
  /\ HunksIdle

\* the diff harness at rest, for the specifications of the application
DiffIdle ==
  /\ oldLines = <<>>
  /\ newLines = <<>>
  /\ ceiling = LCS_CEILING
  /\ ops = <<>>
  /\ dpc = "idle"
  /\ HunksIdle

RunDiff ==
  /\ dpc = "input"
  /\ ops' = diffLinesAt(ceiling, oldLines, newLines)
  /\ dpc' = "done"
  /\ UNCHANGED <<oldLines, newLines, ceiling, textOld, textNew, contextLines, hunks, container>>



\* ------------------------------------------------------------------------
\* Hunk harness: draw two texts and a context size, apply computeUnifiedDiff
\* ------------------------------------------------------------------------
\* the one-character lines over a set of characters
LinesOver(chars) == {<<ch>> : ch \in chars}

HunksInit ==
  /\ \E ls \in SeqsUpTo(LinesOver(OldChars), MaxLenHunks) : textOld = joinLines(ls)
  /\ \E ls \in SeqsUpTo(LinesOver(NewChars), MaxLenHunks) : textNew = joinLines(ls)
  /\ contextLines \in 0..MaxContext
  /\ ceiling \in {LCS_CEILING, SmallCeiling}
  /\ oldLines = <<>>
  /\ newLines = <<>>
  /\ ops = <<>>
  /\ hunks = <<>>
  /\ container = <<>>
  /\ dpc = "input"

\* computeUnifiedDiff(textOld, textNew, contextLines)
RunUnified ==
  /\ dpc = "input"
  /\ oldLines' = splitLines(textOld)
  /\ newLines' = splitLines(textNew)
  /\ ops' = diffLinesAt(ceiling, oldLines', newLines')
  /\ hunks' = buildHunks(ops', oldLines', newLines', contextLines)
  /\ dpc' = "done"
  /\ UNCHANGED <<ceiling, textOld, textNew, contextLines, container>>

\* ------------------------------------------------------------------------
\* Diff view harness: draw a saved text and a current text that differ at up
\* to three sites around two runs of unchanged lines, apply renderDiff
\* ------------------------------------------------------------------------
\* n unchanged lines
unchangedRun(n) == [i \in 1..n |-> <<"m">>]

\* a change site: nothing or one line
siteOf(ch) == {<<>>, <<<<ch>>>>}

DiffViewInit ==
  /\ \E k1 \in 0..MaxUnchanged, k2 \in 0..MaxUnchanged :
       /\ \E a \in siteOf("a"), b \in siteOf("a"), c \in siteOf("a") :
            textOld = joinLines(a \o unchangedRun(k1) \o b \o unchangedRun(k2) \o c)
       /\ \E a \in siteOf("x"), b \in siteOf("x"), c \in siteOf("x") :
            textNew = joinLines(a \o unchangedRun(k1) \o b \o unchangedRun(k2) \o c)
  /\ contextLines = DIFF_CONTEXT
  /\ ceiling = LCS_CEILING
  /\ oldLines = <<>>
  /\ newLines = <<>>
  /\ ops = <<>>
  /\ hunks = <<>>
  /\ container = <<>>
  /\ dpc = "input"

\* renderDiff(textNew, textOld, container)
RunRenderDiff ==
  /\ dpc = "input"
  /\ oldLines' = splitLines(textOld)
  /\ newLines' = splitLines(textNew)
  /\ ops' = diffLines(oldLines', newLines')
  /\ hunks' = computeUnifiedDiff(textOld, textNew, DIFF_CONTEXT)
  /\ container' = renderDiffChildren(textNew, textOld)
  /\ dpc' = "done"
  /\ UNCHANGED <<ceiling, textOld, textNew, contextLines>>

\* ========================================================================
\* Specifications
\* ========================================================================

\* ---- stored sessions that earlier runs of the program have left behind ----

\* written by saveSession of this version: one dirty untitled tab
SeedOne ==
  [tabs |-> <<[id |-> 1, filePath |-> NoPath, content |-> "x", isDirty |-> TRUE,
               scrollTop |-> 1, selectionMain |-> Sel(1), lastSavedContent |-> ""]>>,
   activeTabId |-> 1, nextTabId |-> 2]

\* written by saveSession of this version: tab 1 was closed, tab 3 is active
SeedTwo ==
  [tabs |-> <<[id |-> 2, filePath |-> "/p", content |-> "x", isDirty |-> FALSE,
               scrollTop |-> 0, selectionMain |-> Sel(0), lastSavedContent |-> "x"],
              [id |-> 3, filePath |-> NoPath, content |-> "x", isDirty |-> TRUE,
               scrollTop |-> 1, selectionMain |-> Sel(1), lastSavedContent |-> ""]>>,
   activeTabId |-> 3, nextTabId |-> 4]

\* written by the localStorage-only version of saveSession: no lastSavedContent
SeedOld ==
  [tabs |-> <<[id |-> 1, filePath |-> "/p", content |-> "x", isDirty |-> TRUE,
               scrollTop |-> 1, selectionMain |-> Sel(1), lastSavedContent |-> Undef]>>,
   activeTabId |-> 1, nextTabId |-> 2]

\* the stores at launch: primary entry, legacy data object (serialized into the key)
StoresAre(primary, legacy) ==
  /\ idb = primary
  /\ idbWrites = <<>>
  /\ lsSession = IF legacy = <<>> THEN <<>> ELSE JSONstringify(legacy[1])
  /\ lsOrigin = legacy

\* application state right after launch, apart from the stores
LaunchCore ==
  /\ MemInit
  /\ phase = "restoring"
  /\ restarts = 0
  /\ reloadDue = FALSE
  /\ writes = 0
  /\ edits = 0
  /\ op = Op("launch", Null)
  /\ evictLog = NoEvict
  /\ bootLog = NoBoot
  /\ savedStore = <<>>

LaunchInit ==
  /\ LaunchCore
  /\ PaneIdle
  /\ SaveIdle

\* the application never launched (diff harness only)
AppIdle ==
  /\ MemInit
  /\ PaneIdle
  /\ SaveIdle
  /\ phase = "off"
  /\ restarts = 0
  /\ reloadDue = FALSE
  /\ writes = 0
  /\ edits = 0
  /\ op = Op("off", Null)
  /\ evictLog = NoEvict
  /\ bootLog = NoBoot
  /\ savedStore = <<>>
  /\ idb = <<>>
  /\ idbWrites = <<>>
  /\ lsSession = <<>>
  /\ lsOrigin = <<>>

\* ---- SpecDiff: the diff engine as a pure function ----
InitDiff == DiffInit /\ AppIdle

DiffNext == RunDiff /\ UNCHANGED <<appVars, renderVars, saveVars>>

SpecDiff == InitDiff /\ [][DiffNext]_vars

\* ---- SpecHunks: computeUnifiedDiff as a pure function ----
InitHunks == HunksInit /\ AppIdle

HunksNext == RunUnified /\ UNCHANGED <<appVars, renderVars, saveVars>>

SpecHunks == InitHunks /\ [][HunksNext]_vars

\* ---- SpecDiffView: renderDiff as a pure function ----
InitDiffView == DiffViewInit /\ AppIdle

DiffViewNext == RunRenderDiff /\ UNCHANGED <<appVars, renderVars, saveVars>>

SpecDiffView == InitDiffView /\ [][DiffViewNext]_vars

\* ---- Spec: tab store with concurrent closeTab calls; both durable stores
\* ---- reject writes, so saveSession changes memory only
Init ==
  /\ DiffIdle
  /\ LaunchInit
  /\ \/ StoresAre(<<>>, <<>>)
     \/ StoresAre(<<SeedTwo>>, <<>>)

Next ==
  \/ /\ \E readOk \in BOOLEAN : StartupRestore(readOk)
     /\ UNCHANGED <<diffVars, renderVars, saveVars>>
  \/ /\ StartupNoPending
     /\ UNCHANGED <<diffVars, renderVars, saveVars>>
  \/ /\ \E f \in FilePaths, c \in Texts : StartupPending(MaxTabId, f, c, 0)
     /\ UNCHANGED <<diffVars, renderVars, saveVars>>
  \/ /\ \E f \in FilePaths, c \in Texts : FileOpened(MaxTabId, f, c, 0)
     /\ UNCHANGED <<diffVars, renderVars, saveVars>>
  \/ /\ HandleNew(MaxTabId, 0)
     /\ UNCHANGED <<diffVars, renderVars, saveVars>>
  \/ /\ \E f \in FilePaths, c \in Texts : HandleOpen(MaxTabId, f, c, 0)
     /\ UNCHANGED <<diffVars, renderVars, saveVars>>
  \/ /\ \E id \in 1..MaxTabId : ActivateTab(id, 0)
     /\ UNCHANGED <<diffVars, renderVars, saveVars>>
  \/ /\ \E d \in {-1, 1} : CycleTab(d, 0)
     /\ UNCHANGED <<diffVars, renderVars, saveVars>>
  \/ /\ \E t \in Texts : Edit(MaxEdits, t)
     /\ UNCHANGED <<diffVars, renderVars, saveVars>>
  \/ /\ \E id \in 1..MaxTabId : CloseTab(MaxPendingClose, id, 0)
     /\ UNCHANGED <<diffVars, renderVars, saveVars>>
  \/ /\ \E k \in 1..MaxPendingClose, yes \in BOOLEAN : CloseResolve(k, yes, 0)
     /\ UNCHANGED <<diffVars, renderVars, saveVars>>
  \/ /\ SaveSession(0, 0, FALSE, FALSE)
     /\ UNCHANGED <<diffVars, renderVars, saveVars>>

Spec == Init /\ [][Next]_vars

\* ---- SpecLRU: enough tabs for the eviction cache to overflow; both durable
\* ---- stores reject writes; only clean tabs are closed, MaxClosesLRU of them
\* tabs closed so far, when ids were handed out from 1 on
closedSoFar == nextTabId - 1 - Len(tabs)

InitLRU ==
  /\ DiffIdle
  /\ LaunchInit
  /\ \/ StoresAre(<<>>, <<>>)
     \/ StoresAre(<<SeedOne>>, <<>>)

NextLRU ==
  \/ /\ StartupRestore(TRUE)
     /\ UNCHANGED <<diffVars, renderVars, saveVars>>
  \/ /\ StartupNoPending
     /\ UNCHANGED <<diffVars, renderVars, saveVars>>
  \/ /\ HandleNew(MaxTabIdLRU, 0)
     /\ UNCHANGED <<diffVars, renderVars, saveVars>>
  \/ /\ \E id \in 1..MaxTabIdLRU : ActivateTab(id, 0)
     /\ UNCHANGED <<diffVars, renderVars, saveVars>>
  \/ /\ \E d \in {-1, 1} : CycleTab(d, 0)
     /\ UNCHANGED <<diffVars, renderVars, saveVars>>
  \/ /\ \E t \in Texts : Edit(MaxEditsLRU, t)
     /\ UNCHANGED <<diffVars, renderVars, saveVars>>
  \/ /\ \E id \in 1..MaxTabIdLRU : closedSoFar < MaxClosesLRU /\ CloseTab(0, id, 0)
     /\ UNCHANGED <<diffVars, renderVars, saveVars>>
  \/ /\ SaveSession(0, 0, FALSE, FALSE)
     /\ UNCHANGED <<diffVars, renderVars, saveVars>>

SpecLRU == InitLRU /\ [][NextLRU]_vars

\* ---- SpecSeven: tabs are created one after another up to MaxTabIdSeven,
\* ---- then the first tab is clicked; both durable stores reject writes
allCreated == nextTabId = MaxTabIdSeven + 1

InitSeven ==
  /\ DiffIdle
  /\ LaunchInit
  /\ \/ StoresAre(<<>>, <<>>)
     \/ StoresAre(<<SeedOne>>, <<>>)

NextSeven ==
  \/ /\ StartupRestore(TRUE)
     /\ UNCHANGED <<diffVars, renderVars, saveVars>>
  \/ /\ StartupNoPending
     /\ UNCHANGED <<diffVars, renderVars, saveVars>>
  \/ /\ HandleNew(MaxTabIdSeven, 0)
     /\ UNCHANGED <<diffVars, renderVars, saveVars>>
  \/ /\ \E t \in Texts : Edit(MaxEditsSeven, t)
     /\ UNCHANGED <<diffVars, renderVars, saveVars>>
  \/ /\ allCreated /\ ActivateTab(1, 0)
     /\ UNCHANGED <<diffVars, renderVars, saveVars>>

SpecSeven == InitSeven /\ [][NextSeven]_vars

\* ---- SpecRender: the right pane and the three debounce timers; no stored
\* ---- session, both durable stores reject writes, the file that the
\* ---- system hands over is a large one
InitRender ==
  /\ DiffIdle
  /\ LaunchCore
  /\ SaveIdle
  /\ \E rightPane \in {"preview", "diff"} : PaneLoaded("split", rightPane)
  /\ StoresAre(<<>>, <<>>)

NextRender ==
  \/ /\ PaneStartupRestore(TRUE)
     /\ UNCHANGED <<diffVars, saveVars>>
  \/ /\ PaneStartupNoPending
     /\ UNCHANGED <<diffVars, saveVars>>
  \/ /\ PaneHandleNew
     /\ UNCHANGED <<diffVars, saveVars>>
  \/ /\ \E f \in FilePaths : PaneFileOpened(f, BigText)
     /\ UNCHANGED <<diffVars, saveVars>>
  \/ /\ \E id \in 1..MaxTabIdRender : PaneActivateTab(id)
     /\ UNCHANGED <<diffVars, saveVars>>
  \/ /\ \E t \in EditTexts : PaneEdit(t)
     /\ UNCHANGED <<diffVars, saveVars>>
  \/ /\ \E layout \in {"single", "split"}, rightPane \in {"preview", "diff"} :
          ApplyView(layout, rightPane)
     /\ UNCHANGED <<diffVars, saveVars>>
  \/ /\ ModuleLoaded
     /\ UNCHANGED <<diffVars, saveVars>>
  \/ /\ PreviewTimerFires
     /\ UNCHANGED <<diffVars, saveVars>>
  \/ /\ DiffTimerFires
     /\ UNCHANGED <<diffVars, saveVars>>
  \/ /\ SaveTimerFires
     /\ UNCHANGED <<diffVars, saveVars>>
  \/ /\ RefreshPreview
     /\ UNCHANGED <<diffVars, saveVars>>
  \/ /\ ShikiReady
     /\ UNCHANGED <<diffVars, saveVars>>

SpecRender == InitRender /\ [][NextRender]_vars

\* ---- SpecSwitch: tab switches (restore, activate, new, open, file opened)
\* ---- and edits with the right pane in preview or diff mode; the layout is
\* ---- not changed, both durable stores reject writes
InitSwitch ==
  /\ DiffIdle
  /\ LaunchCore
  /\ SaveIdle
  /\ \E rightPane \in {"preview", "diff"} : PaneLoaded("split", rightPane)
  /\ \/ StoresAre(<<>>, <<>>)
     \/ StoresAre(<<SeedOne>>, <<>>)

NextSwitch ==
  \/ /\ PaneStartupRestore(TRUE)
     /\ UNCHANGED <<diffVars, saveVars>>
  \/ /\ PaneStartupNoPending
     /\ UNCHANGED <<diffVars, saveVars>>
  \/ /\ PaneHandleNew
     /\ UNCHANGED <<diffVars, saveVars>>
  \/ /\ \E f \in FilePaths, c \in Texts : PaneHandleOpen(f, c)
     /\ UNCHANGED <<diffVars, saveVars>>
  \/ /\ \E f \in FilePaths, c \in Texts : PaneFileOpened(f, c)
     /\ UNCHANGED <<diffVars, saveVars>>
  \/ /\ \E id \in 1..MaxTabIdRender : PaneActivateTab(id)
     /\ UNCHANGED <<diffVars, saveVars>>
  \/ /\ \E t \in Texts : PaneEdit(t)
     /\ UNCHANGED <<diffVars, saveVars>>
  \/ /\ ModuleLoaded
     /\ UNCHANGED <<diffVars, saveVars>>
  \/ /\ PreviewTimerFires
     /\ UNCHANGED <<diffVars, saveVars>>
  \/ /\ DiffTimerFires
     /\ UNCHANGED <<diffVars, saveVars>>
  \/ /\ SaveTimerFires
     /\ UNCHANGED <<diffVars, saveVars>>

SpecSwitch == InitSwitch /\ [][NextSwitch]_vars

\* ---- SpecView: the view is changed while the diff view module is being
\* ---- loaded; the layout of the last run comes from localStorage
InitView ==
  /\ DiffIdle
  /\ LaunchCore
  /\ SaveIdle
  /\ \E layout \in {"single", "split"}, rightPane \in {"preview", "diff"} :
       PaneLoaded(layout, rightPane)
  /\ StoresAre(<<>>, <<>>)

NextView ==
  \/ /\ PaneStartupRestore(TRUE)
     /\ UNCHANGED <<diffVars, saveVars>>
  \/ /\ PaneStartupNoPending
     /\ UNCHANGED <<diffVars, saveVars>>
  \/ /\ \E t \in Texts : PaneEdit(t)
     /\ UNCHANGED <<diffVars, saveVars>>
  \/ /\ \E layout \in {"single", "split"}, rightPane \in {"preview", "diff"} :
          ApplyView(layout, rightPane)
     /\ UNCHANGED <<diffVars, saveVars>>
  \/ /\ ModuleLoaded
     /\ UNCHANGED <<diffVars, saveVars>>
  \/ /\ PreviewTimerFires
     /\ UNCHANGED <<diffVars, saveVars>>
  \/ /\ DiffTimerFires
     /\ UNCHANGED <<diffVars, saveVars>>
  \/ /\ SaveTimerFires
     /\ UNCHANGED <<diffVars, saveVars>>

SpecView == InitView /\ [][NextView]_vars

\* ---- SpecDiffPane: one tab is edited and saved while the right pane shows
\* ---- the diff; no stored session
InitDiffPane ==
  /\ DiffIdle
  /\ LaunchCore
  /\ SaveIdle
  /\ PaneLoaded("split", "diff")
  /\ StoresAre(<<>>, <<>>)

NextDiffPane ==
  \/ /\ PaneStartupRestore(TRUE)
     /\ UNCHANGED <<diffVars, saveVars>>
  \/ /\ PaneStartupNoPending
     /\ UNCHANGED <<diffVars, saveVars>>
  \/ /\ \E t \in Texts : PaneEdit(t)
     /\ UNCHANGED <<diffVars, saveVars>>
  \/ /\ ModuleLoaded
     /\ UNCHANGED <<diffVars, saveVars>>
  \/ /\ DiffTimerFires
     /\ UNCHANGED <<diffVars, saveVars>>
  \/ /\ SaveTimerFires
     /\ UNCHANGED <<diffVars, saveVars>>
  \/ /\ PaneHandleSave
     /\ UNCHANGED diffVars
  \/ /\ \E k \in 1..MaxSaveCalls, ok \in BOOLEAN, w \in WrittenTexts :
        PaneBackendSaveFile(k, ok, w)
     /\ UNCHANGED diffVars
  \/ /\ \E k \in 1..MaxSaveCalls, p \in DialogResults, ok \in BOOLEAN, w \in WrittenTexts :
        PaneBackendSaveAs(k, p, ok, w)
     /\ UNCHANGED diffVars
  \/ /\ \E k \in 1..MaxSaveCalls, ok \in BOOLEAN : PaneSaveFileSettles(k, ok)
     /\ UNCHANGED diffVars
  \/ /\ \E k \in 1..MaxSaveCalls, p \in SaveAsReplies : PaneSaveAsSettles(k, p)
     /\ UNCHANGED diffVars

SpecDiffPane == InitDiffPane /\ [][NextDiffPane]_vars

\* ---- SpecLive: the session-save timer fires whenever it stays pending
\* ---- (setTimeout of 2000 ms in a process that keeps running) and the
\* ---- primary store takes every write
TimerSaves ==
  /\ SaveSession(MaxWritesLive, 0, TRUE, FALSE)
  /\ UNCHANGED <<diffVars, renderVars, saveVars>>

\* the put of the oldest pending idbSet completes
IdbWriteLands ==
  /\ IdbWriteSettles(TRUE, FALSE)
  /\ UNCHANGED <<diffVars, renderVars, saveVars>>

InitLive ==
  /\ DiffIdle
  /\ LaunchInit
  /\ \/ StoresAre(<<>>, <<>>)
     \/ StoresAre(<<>>, <<SeedOld>>)
     \/ StoresAre(<<SeedOne>>, <<>>)

NextLive ==
  \/ /\ StartupRestore(TRUE)
     /\ UNCHANGED <<diffVars, renderVars, saveVars>>
  \/ /\ StartupNoPending
     /\ UNCHANGED <<diffVars, renderVars, saveVars>>
  \/ /\ HandleNew(MaxTabIdLive, 0)
     /\ UNCHANGED <<diffVars, renderVars, saveVars>>
  \/ /\ \E f \in FilePaths, c \in Texts : HandleOpen(MaxTabIdLive, f, c, 0)
     /\ UNCHANGED <<diffVars, renderVars, saveVars>>
  \/ /\ \E id \in 1..MaxTabIdLive : ActivateTab(id, 0)
     /\ UNCHANGED <<diffVars, renderVars, saveVars>>
  \/ /\ \E t \in Texts : Edit(MaxEditsLive, t)
     /\ UNCHANGED <<diffVars, renderVars, saveVars>>
  \/ /\ \E id \in 1..MaxTabIdLive : CloseTab(MaxPendingLive, id, 0)
     /\ UNCHANGED <<diffVars, renderVars, saveVars>>
  \/ /\ \E k \in 1..MaxPendingLive, yes \in BOOLEAN : CloseResolve(k, yes, 0)
     /\ UNCHANGED <<diffVars, renderVars, saveVars>>
  \/ TimerSaves
  \/ IdbWriteLands

SpecLive == InitLive /\ [][NextLive]_vars /\ WF_vars(TimerSaves) /\ WF_vars(IdbWriteLands)

\* ---- SpecSave: saving to files while tabs are opened, switched and
\* ---- edited; no stored session, no session save
InitSave ==
  /\ DiffIdle
  /\ LaunchInit
  /\ StoresAre(<<>>, <<>>)

NextSave ==
  \/ /\ SaveStartupRestore
     /\ UNCHANGED <<diffVars, renderVars>>
  \/ /\ SaveStartupNoPending
     /\ UNCHANGED <<diffVars, renderVars>>
  \/ /\ SaveHandleNew
     /\ UNCHANGED <<diffVars, renderVars>>
  \/ /\ \E f \in FilePaths, c \in Texts : SaveHandleOpen(f, c)
     /\ UNCHANGED <<diffVars, renderVars>>
  \/ /\ \E id \in 1..MaxTabIdSave : SaveActivateTab(id)
     /\ UNCHANGED <<diffVars, renderVars>>
  \/ /\ \E t \in Texts : SaveEdit(t)
     /\ UNCHANGED <<diffVars, renderVars>>
  \/ /\ HandleSave
     /\ UNCHANGED <<diffVars, renderVars>>
  \/ /\ HandleSaveAs
     /\ UNCHANGED <<diffVars, renderVars>>
  \/ /\ \E k \in 1..MaxSaveCalls, ok \in BOOLEAN, w \in WrittenTexts :
        BackendSaveFile(k, ok, w)
     /\ UNCHANGED <<diffVars, renderVars>>
  \/ /\ \E k \in 1..MaxSaveCalls, p \in DialogResults, ok \in BOOLEAN, w \in WrittenTexts :
        BackendSaveAs(k, p, ok, w)
     /\ UNCHANGED <<diffVars, renderVars>>
  \/ /\ \E k \in 1..MaxSaveCalls, ok \in BOOLEAN : SaveFileSettles(k, ok)
     /\ UNCHANGED <<diffVars, renderVars>>
  \/ /\ \E k \in 1..MaxSaveCalls, p \in SaveAsReplies : SaveAsSettles(k, p)
     /\ UNCHANGED <<diffVars, renderVars>>

SpecSave == InitSave /\ [][NextSave]_vars

\* ---- SpecSession: the durable stores work or fail per call; the
\* ---- application runs once, is quit, and starts up again
firstRun == restarts = 0

InitSession ==
  /\ DiffIdle
  /\ LaunchInit
  /\ \/ StoresAre(<<>>, <<>>)
     \/ StoresAre(<<>>, <<SeedOld>>)
     \/ StoresAre(<<SeedTwo>>, <<SeedOld>>)
     \/ (idb = <<>> /\ idbWrites = <<>> /\ lsSession = CorruptRaw /\ lsOrigin = <<>>)

NextSession ==
  \/ /\ \E readOk \in BOOLEAN : StartupRestore(readOk)
     /\ UNCHANGED <<diffVars, renderVars, saveVars>>
  \/ /\ StartupNoPending
     /\ UNCHANGED <<diffVars, renderVars, saveVars>>
  \/ /\ \E f \in FilePaths, c \in Texts :
        firstRun /\ FileOpened(MaxTabIdSession, f, c, 0)
     /\ UNCHANGED <<diffVars, renderVars, saveVars>>
  \/ /\ \E t \in Texts : firstRun /\ Edit(MaxEditsSession, t)
     /\ UNCHANGED <<diffVars, renderVars, saveVars>>
  \/ /\ \E id \in 1..MaxTabIdSession : firstRun /\ CloseTab(MaxPendingClose, id, 0)
     /\ UNCHANGED <<diffVars, renderVars, saveVars>>
  \/ /\ \E k \in 1..MaxPendingClose, yes \in BOOLEAN :
        firstRun /\ CloseResolve(k, yes, 0)
     /\ UNCHANGED <<diffVars, renderVars, saveVars>>
  \/ /\ \E sc \in ScrollVals, dbOpens \in BOOLEAN, fallbackOk \in BOOLEAN :
        firstRun /\ SaveSession(MaxWrites, sc, dbOpens, fallbackOk)
     /\ UNCHANGED <<diffVars, renderVars, saveVars>>
  \/ /\ \E ok \in BOOLEAN, fallbackOk \in BOOLEAN : IdbWriteSettles(ok, fallbackOk)
     /\ UNCHANGED <<diffVars, renderVars, saveVars>>
  \/ /\ Relaunch(MaxRestarts)
     /\ UNCHANGED <<diffVars, renderVars, saveVars>>

SpecSession == InitSession /\ [][NextSession]_vars

\* ---- SpecReset: the settings are reset while files are opened, the text is
\* ---- edited and sessions are saved; the page is loaded again, or the
\* ---- application is quit and launched again
InitReset ==
  /\ DiffIdle
  /\ LaunchInit
  /\ \/ StoresAre(<<>>, <<>>)
     \/ StoresAre(<<>>, <<SeedOld>>)
     \/ StoresAre(<<SeedTwo>>, <<SeedOld>>)

NextReset ==
  \/ /\ \E readOk \in BOOLEAN : StartupRestore(readOk)
     /\ UNCHANGED <<diffVars, renderVars, saveVars>>
  \/ /\ StartupNoPending
     /\ UNCHANGED <<diffVars, renderVars, saveVars>>
  \/ /\ \E f \in FilePaths, c \in Texts :
        firstRun /\ FileOpened(MaxTabIdSession, f, c, 0)
     /\ UNCHANGED <<diffVars, renderVars, saveVars>>
  \/ /\ \E t \in Texts : firstRun /\ Edit(MaxEditsSession, t)
     /\ UNCHANGED <<diffVars, renderVars, saveVars>>
  \/ /\ \E sc \in ScrollVals, dbOpens \in BOOLEAN, fallbackOk \in BOOLEAN :
        firstRun /\ SaveSession(MaxWritesReset, sc, dbOpens, fallbackOk)
     /\ UNCHANGED <<diffVars, renderVars, saveVars>>
  \/ /\ \E ok \in BOOLEAN, fallbackOk \in BOOLEAN : IdbWriteSettles(ok, fallbackOk)
     /\ UNCHANGED <<diffVars, renderVars, saveVars>>
  \/ /\ \E confirmed \in BOOLEAN, dbOpens \in BOOLEAN :
        ResetAllSettings(MaxRestarts, MaxPendingResets, confirmed, dbOpens)
     /\ UNCHANGED <<diffVars, renderVars, saveVars>>
  \/ /\ PageReloads(MaxRestarts)
     /\ UNCHANGED <<diffVars, renderVars, saveVars>>
  \/ /\ Relaunch(MaxRestarts)
     /\ UNCHANGED <<diffVars, renderVars, saveVars>>

SpecReset == InitReset /\ [][NextReset]_vars

\* ---- SpecIds: the OS hands files over while startup() still waits for the
\* ---- stored session; tabs are created and closed after startup
InitIds ==
  /\ DiffIdle
  /\ LaunchInit
  /\ \/ StoresAre(<<>>, <<>>)
     \/ StoresAre(<<SeedOne>>, <<>>)
     \/ StoresAre(<<>>, <<SeedOld>>)

NextIds ==
  \/ /\ \E readOk \in BOOLEAN : StartupRestore(readOk)
     /\ UNCHANGED <<diffVars, renderVars, saveVars>>
  \/ /\ StartupNoPending
     /\ UNCHANGED <<diffVars, renderVars, saveVars>>
  \/ /\ \E f \in FilePathsIds, c \in Texts : FileOpened(MaxTabIdIds, f, c, 0)
     /\ UNCHANGED <<diffVars, renderVars, saveVars>>
  \/ /\ HandleNew(MaxTabIdIds, 0)
     /\ UNCHANGED <<diffVars, renderVars, saveVars>>
  \/ /\ \E id \in 1..MaxTabIdIds : ActivateTab(id, 0)
     /\ UNCHANGED <<diffVars, renderVars, saveVars>>
  \/ /\ \E id \in 1..MaxTabIdIds : CloseTab(MaxPendingClose, id, 0)
     /\ UNCHANGED <<diffVars, renderVars, saveVars>>
  \/ /\ \E k \in 1..MaxPendingClose, yes \in BOOLEAN : CloseResolve(k, yes, 0)
     /\ UNCHANGED <<diffVars, renderVars, saveVars>>

SpecIds == InitIds /\ [][NextIds]_vars
\* ------------------------------------------------------------------------
\* Facts about the Tab Store used by the properties below
\* ------------------------------------------------------------------------
idsOf(ts) == {ts[i].id : i \in 1..Len(ts)}

\* the authoritative text of the tab at position i
textAt(i) == authText(Cur, tabs[i])

\* what a user can tell about the tab at position i
tabFacts(i) ==
  [id |-> tabs[i].id, text |-> textAt(i), filePath |-> tabs[i].filePath,
   isDirty |-> tabs[i].isDirty, lastSavedContent |-> tabs[i].lastSavedContent]

storeFacts == [i \in 1..Len(tabs) |-> tabFacts(i)]

\* the step completes a close that was not vetoed
closeCompletes == op'.name \in {"closed", "closeConfirmed"} /\ ~op'.threw

\* positions of the tabs that the step removes from the Tab Store
removedAt == {i \in 1..Len(tabs) : tabs[i].id \notin idsOf(tabs')}

\* ------------------------------------------------------------------------
\* C1
\* ------------------------------------------------------------------------
\* result of walking the ops over A: keep A's line on equal, drop it on
\* delete, take B's line on insert
RECURSIVE applyOps(_, _, _, _)
applyOps(os, A, B, k) ==
  IF k > Len(os) THEN <<>>
  ELSE IF os[k].type = "equal" THEN <<A[os[k].oldIdx + 1]>> \o applyOps(os, A, B, k + 1)
  ELSE IF os[k].type = "insert" THEN <<B[os[k].newIdx + 1]>> \o applyOps(os, A, B, k + 1)
  ELSE applyOps(os, A, B, k + 1)

\* the oldIdx values of the equal and delete ops, in op order
RECURSIVE oldIdxOf(_, _)
oldIdxOf(os, k) ==
  IF k > Len(os) THEN <<>>
  ELSE IF os[k].type \in {"equal", "delete"} THEN <<os[k].oldIdx>> \o oldIdxOf(os, k + 1)
  ELSE oldIdxOf(os, k + 1)

usedGreedy == Len(oldLines) * Len(newLines) > ceiling

\* C1: diffLines returns (no run of its loop is stuck); its ops are only
\* equal / insert / delete; walking them over A reproduces B; the equal and
\* delete ops enumerate the indices 0 .. |A|-1 of A in order, once each.
C1_RoundTrip ==
  dpc = "done" =>
    /\ \A k \in 1..Len(ops) : ops[k].type \in {"equal", "insert", "delete"}
    /\ oldIdxOf(ops, 1) = [i \in 1..Len(oldLines) |-> i - 1]
    /\ applyOps(ops, oldLines, newLines, 1) = newLines

C1_Witness ==
  /\ dpc = "done"
  /\ usedGreedy
  /\ ~identicalLines(oldLines, newLines)
  /\ \E k \in 1..Len(ops) : ops[k].type = "equal"
  /\ \E k \in 1..Len(ops) : ops[k].type = "insert"
  /\ \E k \in 1..Len(ops) : ops[k].type = "delete"

\* ------------------------------------------------------------------------
\* C2
\* ------------------------------------------------------------------------
\* the step is a tab activation (click, cycle, new tab: each may evict and
\* may re-hydrate) or a session save
textKeepingStep == op'.name \in {"activate", "new", "saveSession"}

\* C2: activation, eviction, re-hydration and session save keep every tab in
\* place with its authoritative text, and a tab that loses its editing state
\* in the step has as content the text that state held.
C2_TextPreserved ==
  [][textKeepingStep =>
       \A i \in 1..Len(tabs) :
         /\ i <= Len(tabs')
         /\ tabs'[i].id = tabs[i].id
         /\ textAt(i)' = textAt(i)
         /\ (~tabs[i].editorState.null /\ tabs'[i].editorState.null)
              => tabs'[i].content = textAt(i)]_vars

\* an edited tab has been evicted, and its text is now in content
C2_Witness ==
  /\ op.name \in {"activate", "new"}
  /\ \E i \in 1..Len(tabs) :
       /\ tabs[i].id \in evictLog.discarded
       /\ tabs[i].isDirty
       /\ tabs[i].content = "x"
       /\ tabs[i].lastSavedContent = ""

\* ------------------------------------------------------------------------
\* C3
\* ------------------------------------------------------------------------
liveStates == {i \in 1..Len(tabs) : ~tabs[i].editorState.null}

\* C3: at most MAX_CACHED_TAB_STATES tabs hold a live editing state.
C3_AtMostKLiveStates == Cardinality(liveStates) <= MAX_CACHED_TAB_STATES

\* ------------------------------------------------------------------------
\* C4
\* ------------------------------------------------------------------------
\* C4: a run of evictStaleTabStates discards the editing state neither of
\* the tab that is active while it runs nor of the tab being activated.
C4_ActiveNeverEvicted ==
  evictLog.ran =>
    /\ evictLog.active \notin evictLog.discarded
    /\ evictLog.touched \notin evictLog.discarded

\* eviction has run and discarded a state while a tab holding an editing
\* state was active
C4_Witness ==
  /\ evictLog.ran
  /\ evictLog.discarded # {}
  /\ hasTab(tabs, evictLog.active)
  /\ ~findTab(tabs, evictLog.active).editorState.null

\* ------------------------------------------------------------------------
\* C5
\* ------------------------------------------------------------------------
\* after the step the store holds one tab only, a fresh one, and it is active
onlyFreshTabAfter ==
  /\ Len(tabs') = 1
  /\ tabs'[1].id = nextTabId
  /\ nextTabId' = nextTabId + 1
  /\ tabs'[1].filePath = NoPath
  /\ textAt(1)' = ""
  /\ ~tabs'[1].isDirty
  /\ activeTabId' = tabs'[1].id

\* C5: a completed close that removes the active tab, which stood at
\* 0-based index i, leaves active the tab now at index min(i, n-1) of the n
\* remaining tabs; with n = 0 it leaves exactly one tab, fresh and active;
\* the Tab Store is non-empty after every completed close.
C5_CloseActivatesNeighbor ==
  [][closeCompletes =>
       /\ Len(tabs') >= 1
       /\ \A p \in removedAt :
            tabs[p].id = activeTabId =>
              LET n == Len(tabs) - 1
              IN IF n = 0
                   THEN onlyFreshTabAfter
                   ELSE /\ Len(tabs') = n
                        /\ activeTabId' = tabs'[Min(p - 1, n - 1) + 1].id]_vars

\* the same, for the closes that remove the tab the call was given
C5_OwnTabOnly ==
  [][closeCompletes =>
       /\ Len(tabs') >= 1
       /\ \A p \in removedAt :
            (tabs[p].id = activeTabId /\ tabs[p].id = op'.id) =>
              LET n == Len(tabs) - 1
              IN IF n = 0
                   THEN onlyFreshTabAfter
                   ELSE /\ Len(tabs') = n
                        /\ activeTabId' = tabs'[Min(p - 1, n - 1) + 1].id]_vars

\* ------------------------------------------------------------------------
\* C6
\* ------------------------------------------------------------------------
\* C6: once startup has completed, activeTabId is the id of exactly one tab
\* of the Tab Store.
C6_ActiveTabInStore ==
  phase = "running" =>
    Cardinality({i \in 1..Len(tabs) : tabs[i].id = activeTabId}) = 1

\* ------------------------------------------------------------------------
\* C7
\* ------------------------------------------------------------------------
\* C7: a closeTab whose confirmation is declined closes nothing: neither the
\* step that asks nor the step that resumes after the refusal changes the
\* tab list, its order, activeTabId or any tab's text, file path, isDirty or
\* lastSavedContent, and the resumption raises no error.
C7_DeclinedCloseChangesNothing ==
  [][op'.name \in {"closeAsk", "closeDeclined"} =>
       /\ storeFacts' = storeFacts
       /\ activeTabId' = activeTabId
       /\ ~op'.threw]_vars

\* a dirty tab whose close was declined is still in the store, next to others
C7_Witness ==
  /\ op.name = "closeDeclined"
  /\ hasTab(tabs, op.id)
  /\ findTab(tabs, op.id).isDirty
  /\ Len(tabs) >= 2

\* ------------------------------------------------------------------------
\* C8
\* ------------------------------------------------------------------------
\* memory of a process in which no handler has run yet
freshMemory ==
  [tabs |-> <<>>, active |-> Null, next |-> 1, order |-> <<>>,
   view |-> makeEditorState(""), savePending |-> FALSE, ev |-> NoEvict,
   issued |-> {}]

\* restoreSession has just taken the session from the legacy key
restoredFromLegacy == op.name = "restore" /\ bootLog.src = "legacy"

\* C8: when restoreSession takes the session from the legacy key (the primary
\* store holding none, or its read failing), tabs with their order, the
\* active tab and nextTabId are those it builds when the primary store hands
\* it the snapshot that was stored under the key, and the key is gone.
C8_LegacyRestoreSameStore ==
  restoredFromLegacy =>
    LET fromPrimary == startupAfterRestore(freshMemory, bootLog.origin)
    IN /\ tabs = fromPrimary.tabs
       /\ activeTabId = fromPrimary.active
       /\ nextTabId = fromPrimary.next
       /\ lsSession = <<>>

\* a legacy snapshot written by the previous format has been restored while
\* the primary store held a session whose read failed
C8_Witness ==
  /\ restoredFromLegacy
  /\ bootLog.lsBefore # <<>>
  /\ idb # <<>>
  /\ Len(tabs) >= 1
  /\ tabs[1].lastSavedContent = "x"
  /\ bootLog.origin[1].tabs[1].lastSavedContent = Undef

\* ------------------------------------------------------------------------
\* C9
\* ------------------------------------------------------------------------
\* C9: when restoreSession has taken the session from the legacy key, the
\* primary store holds that snapshot and the legacy key is deleted.
C9_LegacyMigrated ==
  restoredFromLegacy =>
    /\ idb = bootLog.origin
    /\ lsSession = <<>>

\* ------------------------------------------------------------------------
\* C10
\* ------------------------------------------------------------------------
\* restoreSession has just taken the session that saveSession wrote into
\* the primary store
restoredFromSave ==
  /\ op.name = "restore"
  /\ bootLog.src = "primary"
  /\ bootLog.saved # <<>>

\* C10: after a session save into the primary store and a restore from it,
\* the Tab Store is the saved one: same tab ids in the same order, each with
\* the same file path, text, isDirty, scrollTop, selectionMain and
\* lastSavedContent, the same active tab and the same nextTabId.
C10_SaveRestoreRoundTrip ==
  restoredFromSave => storeView(Cur) = bootLog.saved[1]

\* the same, for saves taken while activeTabId named a tab of the store
C10_RoundTripOfSoundStore ==
  (restoredFromSave /\ hasTab(bootLog.saved[1].tabs, bootLog.saved[1].activeTabId))
    => storeView(Cur) = bootLog.saved[1]

\* ------------------------------------------------------------------------
\* C14
\* ------------------------------------------------------------------------
\* unchanged lines between the h-th range and the next one
gapAfter(ranges, h) == ranges[h + 1][1] - ranges[h][2] - 1

\* C14 as stated: no two consecutive hunks are separated by contextLines or
\* fewer unchanged lines.
C14_GapExceedsContext ==
  dpc = "done" =>
    LET ranges == hunkRanges(ops, contextLines)
    IN \A h \in 1..(Len(ranges) - 1) : gapAfter(ranges, h) > contextLines

\* C14, amended: buildHunks emits one hunk per merged range; two consecutive
\* hunks are separated by at least one unchanged line (ranges that touch or
\* overlap after expansion by contextLines are merged), and two changes with
\* 2 * contextLines or fewer unchanged lines between them are in one hunk.
C14_TouchingRangesMerged ==
  dpc = "done" =>
    LET ranges == hunkRanges(ops, contextLines)
        changes == changeRanges(ops)
    IN /\ Len(hunks) = Len(ranges)
       /\ \A h \in 1..Len(ranges) :
            Len(hunks[h].lines) = ranges[h][2] - ranges[h][1] + 1
       /\ \A h \in 1..(Len(ranges) - 1) : gapAfter(ranges, h) >= 1
       /\ \A k \in 1..(Len(changes) - 1) :
            gapAfter(changes, k) <= 2 * contextLines =>
              \E h \in 1..Len(ranges) :
                ranges[h][1] <= changes[k][1] /\ changes[k + 1][2] <= ranges[h][2]

\* two hunks with context around them, and a pair of changes that was merged
C14_Witness ==
  /\ dpc = "done"
  /\ contextLines >= 1
  /\ Len(hunks) = 2
  /\ Len(changeRanges(ops)) = 2

\* ------------------------------------------------------------------------
\* C15
\* ------------------------------------------------------------------------
\* |A| equal ops, the i-th with oldIdx = newIdx = i
allEqualOps(A) == [i \in 1..Len(A) |-> [type |-> "equal", oldIdx |-> i - 1, newIdx |-> i - 1]]

\* C15: diffLines(A, A) is |A| equal ops with oldIdx = newIdx = i at
\* position i, and the path through computeLCS (dynamic programming or
\* greedy, as the ceiling decides, and each of the two by itself) yields the
\* same ops.
C15_IdenticalInputs ==
  (dpc = "done" /\ oldLines = newLines) =>
    /\ ops = allEqualOps(oldLines)
    /\ opsFromLCS(computeLCSAt(ceiling, oldLines, newLines), oldLines, newLines) = ops
    /\ opsFromLCS(computeLCSDP(oldLines, newLines), oldLines, newLines) = ops
    /\ opsFromLCS(computeLCSDiagonal(oldLines, newLines), oldLines, newLines) = ops

\* identical inputs of full length with a repeated line
C15_Witness ==
  /\ dpc = "done"
  /\ oldLines = <<"a", "b", "a">>
  /\ newLines = oldLines
  /\ Len(ops) = 3

\* ------------------------------------------------------------------------
\* C16
\* ------------------------------------------------------------------------
\* the lines of s are pairwise distinct
distinctLines(s) == \A i, j \in 1..Len(s) : s[i] = s[j] => i = j

\* new is old with the line at 0-based index k replaced by a line that old
\* does not have
replacedAt(old, new, k) ==
  /\ Len(new) = Len(old)
  /\ k \in 0..(Len(old) - 1)
  /\ \A i \in 1..Len(old) : (new[i] = old[i]) <=> (i # k + 1)
  /\ \A i \in 1..Len(old) : old[i] # new[k + 1]

\* the one hunk the statement describes
singleChangeHunk(old, new, k, ctx) ==
  LET n == Len(old)
      before == Min(k, ctx)
      after == Min(n - 1 - k, ctx)
      contextAt(i) == [type |-> "context", text |-> old[i], oldLine |-> i, newLine |-> i]
  IN [oldStart |-> k - before + 1,
      newStart |-> k - before + 1,
      lines |-> [j \in 1..before |-> contextAt(k - before + j)]
                  \o <<[type |-> "remove", text |-> old[k + 1], oldLine |-> k + 1, newLine |-> NoIdx],
                       [type |-> "add", text |-> new[k + 1], oldLine |-> NoIdx, newLine |-> k + 1]>>
                  \o [j \in 1..after |-> contextAt(k + 1 + j)]]

\* C16: for old with pairwise distinct lines and new differing from it in
\* the line at index k only, by a line old does not have, computeUnifiedDiff
\* returns exactly one hunk: min(k, c) context lines, the removed line, the
\* added line, min(n-1-k, c) context lines, oldStart = newStart =
\* k - min(k, c) + 1.
C16_SingleReplacedLine ==
  dpc = "done" =>
    \A k \in 0..(Len(oldLines) - 1) :
      (distinctLines(oldLines) /\ replacedAt(oldLines, newLines, k))
        => hunks = <<singleChangeHunk(oldLines, newLines, k, contextLines)>>

\* old = [a, b, c], new = [a, x, c], contextLines = 1
C16_Witness ==
  /\ dpc = "done"
  /\ textOld = <<"a", NL, "b", NL, "c">>
  /\ textNew = <<"a", NL, "x", NL, "c">>
  /\ contextLines = 1
  /\ hunks = <<[oldStart |-> 1, newStart |-> 1,
               lines |-> <<[type |-> "context", text |-> <<"a">>, oldLine |-> 1, newLine |-> 1],
                           [type |-> "remove", text |-> <<"b">>, oldLine |-> 2, newLine |-> NoIdx],
                           [type |-> "add", text |-> <<"x">>, oldLine |-> NoIdx, newLine |-> 2],
                           [type |-> "context", text |-> <<"c">>, oldLine |-> 3, newLine |-> 3]>>]>>

\* ------------------------------------------------------------------------
\* C17
\* ------------------------------------------------------------------------
\* position of the tab with this id, 0 when the store does not hold it
posOf(ts, id) == findIndex(ts, id) + 1

\* C17: with K = 5, when seven tabs have been created one after another and
\* tab 1 is then activated, tabs 2 and 3 have no editing state; a tab that
\* loses its editing state gets as content the text that was live in it, and
\* keeps that content while it has no editing state.
C17_SevenTabsEvictTwoAndThree ==
  [][\A id \in {2, 3} :
       LET i == posOf(tabs, id)
       IN /\ (allCreated' /\ op'.name = "activate" /\ activeTabId' = 1)
               => /\ posOf(tabs', id) = id
                  /\ tabs'[id].editorState.null
          /\ (i > 0 /\ posOf(tabs', id) = i /\ tabs'[i].editorState.null)
               => tabs'[i].content =
                    IF tabs[i].editorState.null THEN tabs[i].content ELSE textAt(i)]_vars

\* tab 1 has been activated after the seventh tab was created; tabs 2 and 3
\* are discarded, tab 2 with the text that was typed into it
C17_Witness ==
  /\ allCreated
  /\ op.name = "activate"
  /\ activeTabId = 1
  /\ Len(tabs) = 7
  /\ tabs[2].editorState.null /\ tabs[2].content = "x" /\ tabs[2].isDirty
  /\ tabs[3].editorState.null /\ tabs[3].content = ""
  /\ \A i \in 4..7 : ~tabs[i].editorState.null

\* ------------------------------------------------------------------------
\* C18
\* ------------------------------------------------------------------------
\* restoreSession replaced the store by a stored list
restoreStep == op'.name = "restore" /\ bootLog'.src # "none"

\* the step adds one tab to the store by createTab (a restore that replaces
\* the store by a longer one is not a creation)
createStep ==
  /\ Len(tabs') = Len(tabs) + 1
  /\ ~restoreStep

\* the ids of the list are strictly increasing and below the counter
idsIncreasingBelow(ts, next) ==
  /\ \A i \in 1..Len(ts) : ts[i].id < next
  /\ \A i \in 1..(Len(ts) - 1) : ts[i].id < ts[i + 1].id

\* the ids createTab hands out in this step: those of the tabs that come new
\* into the store, unless the step is a restore that brought them
handedOut ==
  IF restoreStep THEN {}
  ELSE {tabs'[i].id : i \in 1..Len(tabs')} \ tabIds

\* createTab appends a tab with id = nextTabId, isDirty = false and
\* lastSavedContent = content (no path and the empty text for an omitted
\* argument), increments the counter and changes neither
\* activeTabId nor another tab; in every step that creates a tab the new tab
\* is the last one, has the old counter as id and the other tabs keep their
\* ids and places; while the application runs the counter never decreases;
\* the ids of the tab list are strictly increasing and below the counter
createTabContract ==
  /\ \A f \in FilePaths \cup {NoPath, Undef}, c \in Texts \cup {Undef} :
       LET s == createTab(Cur, f, c)
           t == s.tabs[Len(s.tabs)]
           given == IF c = Undef THEN "" ELSE c
       IN /\ Len(s.tabs) = Len(tabs) + 1
          /\ SubSeq(s.tabs, 1, Len(tabs)) = tabs
          /\ t.id = nextTabId /\ s.next = nextTabId + 1
          /\ ~t.isDirty /\ t.lastSavedContent = given /\ t.content = given
          /\ t.filePath = (IF f = Undef THEN NoPath ELSE f)
          /\ t.editorState.null
          /\ s.active = activeTabId
  /\ createStep =>
       /\ tabs'[Len(tabs')].id = nextTabId
       /\ nextTabId' = nextTabId + 1
       /\ ~tabs'[Len(tabs')].isDirty
       /\ tabs'[Len(tabs')].lastSavedContent = tabs'[Len(tabs')].content
       /\ \A i \in 1..Len(tabs) : tabs'[i].id = tabs[i].id
  /\ (phase = "running" /\ phase' = "running") => nextTabId' >= nextTabId
  /\ idsIncreasingBelow(tabs', nextTabId')

\* C18: createTab gives the new tab the current counter as id and increments
\* the counter, with isDirty = false and lastSavedContent = content (the
\* empty text and no path when the argument is omitted), appends
\* it and leaves activeTabId and the other tabs alone; hence, over creates,
\* closes and the restore of one process, the tab list is strictly increasing
\* by id with no id twice, and an id that createTab has handed out in this
\* process (to a tab closed since, or gone from the store otherwise) is never
\* handed out again.
C18_CreateTabFreshId ==
  [][/\ createTabContract
     /\ handedOut \cap issued = {}]_vars

\* ------------------------------------------------------------------------
\* C11
\* ------------------------------------------------------------------------
isLarge(t) == TextLen(t) > LARGE_FILE_THRESHOLD

\* what the step did to the pane and the timers
armedIn(kind) == <<"armed", kind>> \in fx'
renderedIn(kind) == <<"rendered", kind>> \in fx'

\* C11: when the active document is longer than the large-file threshold
\* (before the change and after it), a document-change notification neither
\* starts the preview timer nor renders the preview; a step that renders the
\* preview of a document longer than the threshold is the explicit refresh.
C11_NoLivePreviewOfLargeFile ==
  [][/\ (op'.name = "edit" /\ isLarge(view.doc) /\ isLarge(view'.doc))
          => (~armedIn("preview") /\ ~renderedIn("preview"))
     /\ (renderedIn("preview") /\ isLarge(previewShown'.text))
          => op'.name = "refreshPreview"]_vars

\* ------------------------------------------------------------------------
\* C12
\* ------------------------------------------------------------------------
\* the fires of this timer that are pending in the set
firesOf(pending, kind) == {p \in pending : p.kind = kind}

\* the text saveSession would store for the active tab, taken now
textToSave ==
  LET d == sessionData(snapshotCurrentTab(Cur, 0))
      i == posOf(tabs, activeTabId)
  IN d.tabs[i].content

\* C12: each of the three timers has at most one fire pending, and it is the
\* one its handle names (scheduling has cancelled the earlier one); after a
\* document change exactly one fire of the session-save timer and exactly
\* one of the render timer in force are pending, also when the change is the
\* second of a burst; the fire of a timer leaves none pending and renders
\* (saves) the text the editor holds then.
C12_OnePendingFirePerTimer ==
  [][/\ \A kind \in TimerKinds :
          /\ Cardinality(firesOf(pendingFires', kind)) <= 1
          /\ \A p \in firesOf(pendingFires', kind) : timerHandle'[kind] = p.id
     /\ op'.name = "edit" =>
          /\ Cardinality(firesOf(pendingFires', "save")) = 1
          /\ inDiffMode(Pane) => Cardinality(firesOf(pendingFires', "diff")) = 1
          /\ (~inDiffMode(Pane) /\ ~isLargeFile) =>
               Cardinality(firesOf(pendingFires', "preview")) = 1
     /\ op'.name = "previewTimer" =>
          /\ firesOf(pendingFires', "preview") = {}
          /\ renderedIn("preview")
          /\ previewShown' = [kind |-> "html", text |-> view.doc]
     /\ (op'.name = "diffTimer" /\ diffViewLoaded /\ hasTab(tabs, activeTabId)) =>
          /\ firesOf(pendingFires', "diff") = {}
          /\ renderedIn("diff")
          /\ diffShown' = [kind |-> "diff", cur |-> view.doc,
                           base |-> findTab(tabs, activeTabId).lastSavedContent]
     /\ (op'.name = "saveSession" /\ hasTab(tabs, activeTabId)) =>
          /\ firesOf(pendingFires', "save") = {}
          /\ textToSave = view.doc]_vars

\* two document changes in a row, no render in between: one fire of the
\* preview timer and one of the session-save timer are pending
C12_Witness ==
  /\ op.name = "edit"
  /\ edits = 2
  /\ previewShown = NoPreview
  /\ diffShown = NoDiff
  /\ view.doc = ""
  /\ pendingFires = {[kind |-> "preview", id |-> 1], [kind |-> "save", id |-> 1]}

\* ------------------------------------------------------------------------
\* C13
\* ------------------------------------------------------------------------
\* the step has made another tab the active one
tabSwitched == op'.name \in {"activate", "new", "fileOpened"} /\ activeTabId' # activeTabId

\* the diff pane holds the diff of the active tab's text against its own
\* lastSavedContent, the preview pane the rendering of its text
diffOfActiveTab ==
  [kind |-> "diff", cur |-> view.doc, base |-> findTab(tabs, activeTabId).lastSavedContent]
previewOfActiveTab == [kind |-> "html", text |-> view.doc]

\* C13: a tab activation and a view-mode change (the diff-view module being
\* loaded) render the visible pane within the step and set no debounce
\* timer for it: in diff mode the diff of the now active tab against its
\* own lastSavedContent, in preview mode its text (unless it is a large file).
C13_VisiblePaneRenderedAtOnce ==
  [][(tabSwitched \/ (op'.name = "applyView" /\ diffViewLoaded)) =>
       /\ (layoutMode' = "split" /\ rightPaneContent' = "diff") =>
            /\ renderedIn("diff")
            /\ ~armedIn("diff")
            /\ diffShown' = diffOfActiveTab'
       /\ (layoutMode' = "split" /\ rightPaneContent' = "preview" /\ ~isLarge(view'.doc)) =>
            /\ renderedIn("preview")
            /\ ~armedIn("preview")
            /\ previewShown' = previewOfActiveTab']_vars

\* ------------------------------------------------------------------------
\* C19
\* ------------------------------------------------------------------------
\* C19: for every tab, isDirty is true if and only if the tab's current text
\* differs from its lastSavedContent.
C19_DirtyIffTextDiffers ==
  \A i \in 1..Len(tabs) :
    tabs[i].isDirty <=> (textAt(i) # tabs[i].lastSavedContent)

\* ------------------------------------------------------------------------
\* C20
\* ------------------------------------------------------------------------
\* C20: for every tab, lastSavedContent is the text this tab had at its most
\* recent load or completed save, and filePath is the path that text was
\* loaded from or written to, whatever happened while a save was suspended.
C20_SavedContentIsOwnLastSave ==
  \A i \in 1..Len(tabs) :
    /\ tabs[i].id \in DOMAIN origin
    /\ tabs[i].lastSavedContent = origin[tabs[i].id].text
    /\ tabs[i].filePath = origin[tabs[i].id].path

\* ------------------------------------------------------------------------
\* C24
\* ------------------------------------------------------------------------
\* number of lines of one side ("oldIdx" or "newIdx") that the first n ops
\* consume
consumedBefore(os, side, n) == Cardinality({k \in 1..n : os[k][side] # NoIdx})

\* C24: for every hunk returned by buildHunks, for every contextLines >= 0,
\* oldStart - 1 is the number of old lines consumed by the ops before the
\* hunk's first op and newStart - 1 the number of new lines consumed by
\* them, also when the hunk begins with pure inserts or pure deletes.
C24_StartsCountConsumedLines ==
  dpc = "done" =>
    LET ranges == hunkRanges(ops, contextLines)
    IN \A h \in 1..Len(hunks) :
         /\ hunks[h].oldStart - 1 = consumedBefore(ops, "oldIdx", ranges[h][1])
         /\ hunks[h].newStart - 1 = consumedBefore(ops, "newIdx", ranges[h][1])

\* ------------------------------------------------------------------------
\* C25
\* ------------------------------------------------------------------------
\* f is strictly increasing on 1..k
increasing(f, k) == \A i \in 1..(k - 1) : f[i] < f[i + 1]

\* old and new have a common subsequence of k lines
haveCommon(old, new, k) ==
  \E f \in [1..k -> 1..Len(old)] :
    \E g \in [1..k -> 1..Len(new)] :
      /\ increasing(f, k)
      /\ increasing(g, k)
      /\ \A i \in 1..k : old[f[i]] = new[g[i]]

\* length of a longest common subsequence, by enumeration
lcsLength(old, new) ==
  CHOOSE k \in 0..Min(Len(old), Len(new)) :
    /\ haveCommon(old, new, k)
    /\ ~haveCommon(old, new, k + 1)

opsOfType(os, t) == Cardinality({k \in 1..Len(os) : os[k].type = t})

\* C25: when oldLen * newLen is not above the ceiling, the number of equal
\* ops of diffLines is the length of a longest common subsequence, and the
\* script has |old| + |new| - 2 * that many insert and delete ops.
C25_MinimalEditScript ==
  (dpc = "done" /\ ~usedGreedy) =>
    LET n == lcsLength(oldLines, newLines)
    IN /\ opsOfType(ops, "equal") = n
       /\ opsOfType(ops, "insert") + opsOfType(ops, "delete")
            = Len(oldLines) + Len(newLines) - 2 * n

\* [a, b, c] against [c, a, b]: matching c first would leave one equal op
C25_Witness ==
  /\ dpc = "done"
  /\ ~usedGreedy
  /\ oldLines = <<"a", "b", "c">>
  /\ newLines = <<"c", "a", "b">>
  /\ opsOfType(ops, "equal") = 2

\* ------------------------------------------------------------------------
\* C26
\* ------------------------------------------------------------------------
\* pairs are strictly increasing in both coordinates, within bounds, and
\* pair equal lines
validAlignment(lcs, old, new) ==
  /\ \A k \in 1..Len(lcs) :
       /\ lcs[k][1] \in 0..(Len(old) - 1)
       /\ lcs[k][2] \in 0..(Len(new) - 1)
       /\ old[lcs[k][1] + 1] = new[lcs[k][2] + 1]
  /\ \A k \in 1..(Len(lcs) - 1) :
       /\ lcs[k][1] < lcs[k + 1][1]
       /\ lcs[k][2] < lcs[k + 1][2]

\* new index of the last pair whose old index is below i, -1 when none
lastMatchedBefore(lcs, i) ==
  LET before == {k \in 1..Len(lcs) : lcs[k][1] < i}
  IN IF before = {} THEN -1
     ELSE lcs[CHOOSE k \in before : \A m \in before : m <= k][2]

\* every old line is paired with the earliest occurrence of it in new after
\* the previously matched position, and is unpaired only when there is none
earliestMatches(lcs, old, new) ==
  \A i \in 0..(Len(old) - 1) :
    LET lastJ == lastMatchedBefore(lcs, i)
        later == {j \in (lastJ + 1)..(Len(new) - 1) : new[j + 1] = old[i + 1]}
        mine == {k \in 1..Len(lcs) : lcs[k][1] = i}
    IN IF later = {} THEN mine = {}
       ELSE \E k \in mine : \A j \in later : lcs[k][2] <= j /\ lcs[k][2] \in later

\* the pairs of the equal ops, in op order
RECURSIVE equalPairs(_, _)
equalPairs(os, k) ==
  IF k > Len(os) THEN <<>>
  ELSE IF os[k].type = "equal"
    THEN <<(<<os[k].oldIdx, os[k].newIdx>>)>> \o equalPairs(os, k + 1)
  ELSE equalPairs(os, k + 1)

\* C26: the result of computeLCS on the path the ceiling selects, and of
\* each of the two paths by itself, is strictly increasing in both
\* coordinates, within bounds and pairs equal lines only; the greedy result
\* pairs each old line with the earliest occurrence in new after the
\* previous match; the greedy path returns pairs like the other one (the
\* equal ops of diffLines are these pairs).
C26_AlignmentIsMonotonic ==
  dpc = "done" =>
    /\ validAlignment(computeLCSAt(ceiling, oldLines, newLines), oldLines, newLines)
    /\ validAlignment(computeLCSDP(oldLines, newLines), oldLines, newLines)
    /\ validAlignment(computeLCSDiagonal(oldLines, newLines), oldLines, newLines)
    /\ earliestMatches(computeLCSDiagonal(oldLines, newLines), oldLines, newLines)
    /\ ~identicalLines(oldLines, newLines)
         => equalPairs(ops, 1) = computeLCSAt(ceiling, oldLines, newLines)

\* the greedy path on [b, a, b] against [a, b, a]: b is matched at new
\* index 1, a has no occurrence after it but 2, the last b none
C26_Witness ==
  /\ dpc = "done"
  /\ usedGreedy
  /\ oldLines = <<"b", "a", "b">>
  /\ newLines = <<"a", "b", "a">>
  /\ equalPairs(ops, 1) = <<(<<0, 1>>), (<<1, 2>>)>>

\* ------------------------------------------------------------------------
\* C27
\* ------------------------------------------------------------------------
\* C27: in the ops of diffLines no insert is immediately followed by a
\* delete, so that within every maximal run of non-equal ops the deletes
\* come before the inserts.
C27_DeletesBeforeInserts ==
  dpc = "done" =>
    /\ \A k \in 1..(Len(ops) - 1) :
         ~(ops[k].type = "insert" /\ ops[k + 1].type = "delete")
    /\ \A k, m \in 1..Len(ops) :
         (k < m /\ ops[k].type = "insert" /\ ops[m].type = "delete")
           => \E e \in (k + 1)..(m - 1) : ops[e].type = "equal"

\* a run with a delete and an insert before the first pair, and one after
\* the last pair
C27_Witness ==
  /\ dpc = "done"
  /\ Len(ops) >= 5
  /\ ops[1].type = "delete" /\ ops[2].type = "insert" /\ ops[3].type = "equal"
  /\ ops[Len(ops) - 1].type = "delete" /\ ops[Len(ops)].type = "insert"

\* ------------------------------------------------------------------------
\* C28
\* ------------------------------------------------------------------------
\* the lines of all hunks, hunk after hunk
RECURSIVE allLines(_, _)
allLines(hs, h) ==
  IF h > Len(hs) THEN <<>> ELSE hs[h].lines \o allLines(hs, h + 1)

\* what a line tells about the op it was made from
lineKey(l) == [type |-> l.type, oldLine |-> l.oldLine, newLine |-> l.newLine]

\* the add and remove lines of ls, in order
RECURSIVE changeLinesOf(_, _)
changeLinesOf(ls, k) ==
  IF k > Len(ls) THEN <<>>
  ELSE IF ls[k].type \in {"add", "remove"}
    THEN <<lineKey(ls[k])>> \o changeLinesOf(ls, k + 1)
  ELSE changeLinesOf(ls, k + 1)

\* the insert and delete ops of os, in order, each as the line it is to
\* become
RECURSIVE changeOpsOf(_, _)
changeOpsOf(os, k) ==
  IF k > Len(os) THEN <<>>
  ELSE IF os[k].type = "insert"
    THEN <<[type |-> "add", oldLine |-> NoIdx, newLine |-> os[k].newIdx + 1]>>
           \o changeOpsOf(os, k + 1)
  ELSE IF os[k].type = "delete"
    THEN <<[type |-> "remove", oldLine |-> os[k].oldIdx + 1, newLine |-> NoIdx]>>
           \o changeOpsOf(os, k + 1)
  ELSE changeOpsOf(os, k + 1)

\* C28: buildHunks returns no hunk iff ops hold no insert and no delete; the
\* add and remove lines of the hunks, hunk after hunk, are the insert and
\* delete ops in op order, once each; the hunks are made from op ranges that
\* are non-empty, within the ops, disjoint and increasing, one hunk a range.
C28_HunksPartitionChanges ==
  dpc = "done" =>
    LET ranges == hunkRanges(ops, contextLines)
    IN /\ (hunks = <<>>) <=> (\A k \in 1..Len(ops) : ops[k].type = "equal")
       /\ changeLinesOf(allLines(hunks, 1), 1) = changeOpsOf(ops, 1)
       /\ Len(hunks) = Len(ranges)
       /\ \A h \in 1..Len(ranges) :
            /\ 0 <= ranges[h][1] /\ ranges[h][1] <= ranges[h][2]
            /\ ranges[h][2] <= Len(ops) - 1
            /\ Len(hunks[h].lines) = ranges[h][2] - ranges[h][1] + 1
            /\ changeLinesOf(hunks[h].lines, 1)
                 = changeOpsOf(SubSeq(ops, ranges[h][1] + 1, ranges[h][2] + 1), 1)
       /\ \A h \in 1..(Len(ranges) - 1) : ranges[h][2] < ranges[h + 1][1]

\* two hunks, the first with a remove and an add line, the second with an
\* add line
C28_Witness ==
  /\ dpc = "done"
  /\ Len(hunks) = 2
  /\ Len(changeLinesOf(hunks[1].lines, 1)) = 2
  /\ changeLinesOf(hunks[1].lines, 1)[1].type = "remove"
  /\ changeLinesOf(hunks[1].lines, 1)[2].type = "add"
  /\ changeLinesOf(hunks[2].lines, 1)[1].type = "add"

\* identical texts: no hunk
C28_WitnessEmpty ==
  /\ dpc = "done"
  /\ Len(ops) = 3
  /\ hunks = <<>>

\* ------------------------------------------------------------------------
\* C29
\* ------------------------------------------------------------------------
\* the numbers of one side ("oldLine" or "newLine") that the lines carry, in
\* order
RECURSIVE lineNumbers(_, _, _)
lineNumbers(ls, side, k) ==
  IF k > Len(ls) THEN <<>>
  ELSE IF ls[k][side] # NoIdx THEN <<ls[k][side]>> \o lineNumbers(ls, side, k + 1)
  ELSE lineNumbers(ls, side, k + 1)

\* each number is the one before it plus one
consecutive(s) == \A k \in 1..(Len(s) - 1) : s[k + 1] = s[k] + 1

\* C29: in every hunk a context line carries oldLine and newLine, a remove
\* line oldLine only, an add line newLine only; a number n is the n-th line
\* of its sequence (1-based), with the line's text; the oldLine values of a
\* hunk are consecutive and increasing, and so are its newLine values.
C29_LineNumbers ==
  dpc = "done" =>
    \A h \in 1..Len(hunks) :
      LET ls == hunks[h].lines
      IN /\ \A k \in 1..Len(ls) :
              /\ ls[k].type \in {"context", "remove", "add"}
              /\ (ls[k].oldLine # NoIdx) <=> (ls[k].type \in {"context", "remove"})
              /\ (ls[k].newLine # NoIdx) <=> (ls[k].type \in {"context", "add"})
              /\ ls[k].oldLine # NoIdx
                   => /\ ls[k].oldLine \in 1..Len(oldLines)
                      /\ oldLines[ls[k].oldLine] = ls[k].text
              /\ ls[k].newLine # NoIdx
                   => /\ ls[k].newLine \in 1..Len(newLines)
                      /\ newLines[ls[k].newLine] = ls[k].text
         /\ consecutive(lineNumbers(ls, "oldLine", 1))
         /\ consecutive(lineNumbers(ls, "newLine", 1))

\* a hunk with add, context, remove, add and context lines; the old and the
\* new number of a context line differ
C29_Witness ==
  /\ dpc = "done"
  /\ \E h \in 1..Len(hunks) :
       LET ls == hunks[h].lines
       IN /\ Len(ls) = 5
          /\ ls[1].type = "add" /\ ls[1].newLine = 1
          /\ ls[2].type = "context" /\ ls[2].oldLine = 1 /\ ls[2].newLine = 2
          /\ ls[3].type = "remove" /\ ls[3].oldLine = 2
          /\ ls[4].type = "add" /\ ls[4].newLine = 3
          /\ ls[5].type = "context" /\ ls[5].oldLine = 3 /\ ls[5].newLine = 4

\* ------------------------------------------------------------------------
\* C23
\* ------------------------------------------------------------------------
\* k successive cycleTab(direction)
RECURSIVE cycleTimes(_, _, _)
cycleTimes(s, direction, k) ==
  IF k = 0 THEN s ELSE cycleTimes(cycleTab(s, direction, 0), direction, k - 1)

\* the tab at position p is active, and cycleTab(+1) / cycleTab(-1) activate
\* its neighbour in list order, wrapping around at both ends
cyclesFrom(p) ==
  LET n == Len(tabs)
  IN /\ tabs[p].id = activeTabId
     /\ cycleTab(Cur, 1, 0).active = tabs[(p % n) + 1].id
     /\ cycleTab(Cur, -1, 0).active = tabs[((p + n - 2) % n) + 1].id

\* C23: cycleTab(+1) activates the tab after the active one in list order
\* and cycleTab(-1) the one before it, wrapping around; with zero or one tab
\* cycleTab changes nothing; with n >= 2 tabs, cycleTab(+1) followed by
\* cycleTab(-1), and n successive cycleTab(+1), return to the originally
\* active tab.
C23_CycleTabWraps ==
  phase = "running" =>
    LET n == Len(tabs)
    IN /\ n <= 1 => \A d \in {-1, 1} : cycleTab(Cur, d, 0) = Cur
       /\ n >= 2 =>
            /\ \E p \in 1..n : cyclesFrom(p)
            /\ cycleTab(cycleTab(Cur, 1, 0), -1, 0).active = activeTabId
            /\ cycleTimes(Cur, 1, n).active = activeTabId

\* ------------------------------------------------------------------------
\* C21
\* ------------------------------------------------------------------------
\* the snapshot that saveSession takes when the scroll position is sc
snapshotAt(sc) == sessionData(snapshotCurrentTab(Cur, sc))

\* the stores after a write of the snapshot d has settled, or failed at once
storesTake(d, primaryOk, fallbackOk) ==
  /\ primaryOk => (idb' = <<d>> /\ lsSession' = lsSession)
  /\ (~primaryOk /\ fallbackOk) =>
       /\ idb' = idb
       /\ JSONvalid(lsSession')
       /\ JSONparse(lsSession') = d
  /\ (~primaryOk /\ ~fallbackOk) => (idb' = idb /\ lsSession' = lsSession)

\* the step raises nothing and the Tab Store shows the same tabs as before
tabStoreKept ==
  /\ ~op'.threw
  /\ phase' = phase
  /\ activeTabId' = activeTabId
  /\ nextTabId' = nextTabId
  /\ storeFacts' = storeFacts

\* C21: saveSession hands its snapshot to the primary store, and that
\* snapshot is what the store holds once the write has succeeded, the
\* fallback store being left alone; when the primary write fails, at once or
\* later, the primary store keeps what it held and the fallback store gets a
\* string that parses back to the same snapshot; when the fallback write
\* fails too, both stores keep what they held.  In every case nothing is
\* raised and the Tab Store shows the same tabs as before.
C21_FallbackIffPrimaryFails ==
  [][/\ \A sc \in ScrollVals, dbOpens \in BOOLEAN, fallbackOk \in BOOLEAN :
          SaveSession(MaxWrites, sc, dbOpens, fallbackOk) =>
            /\ dbOpens =>
                 /\ Len(idbWrites') = Len(idbWrites) + 1
                 /\ SubSeq(idbWrites', 1, Len(idbWrites)) = idbWrites
                 /\ idbWrites'[Len(idbWrites')].data = <<snapshotAt(sc)>>
                 /\ idb' = idb
                 /\ lsSession' = lsSession
            /\ ~dbOpens => (idbWrites' = idbWrites /\ storesTake(snapshotAt(sc), FALSE, fallbackOk))
            /\ tabStoreKept
     /\ \A ok \in BOOLEAN, fallbackOk \in BOOLEAN :
          (IdbWriteSettles(ok, fallbackOk) /\ Head(idbWrites) # NullPut) =>
            /\ storesTake(Head(idbWrites).data[1], ok, fallbackOk)
            /\ tabStoreKept]_vars

\* the primary write failed in a later task, and the
\* fallback store holds the session as it was when saveSession ran: the text
\* that was typed then and the cursor behind it
C21_Witness ==
  /\ op.name = "sessionStoreFailed"
  /\ writes = 1
  /\ idb = <<>>
  /\ JSONvalid(lsSession)
  /\ JSONparse(lsSession).tabs[1].content = "x"
  /\ JSONparse(lsSession).tabs[1].selectionMain = Sel(1)
  /\ JSONparse(lsSession).tabs[1].lastSavedContent = ""

\* ------------------------------------------------------------------------
\* C22
\* ------------------------------------------------------------------------
\* the primary store yields a non-empty tab list when it is read
primaryYields(readOk) == readOk /\ idb # <<>> /\ Len(idb[1].tabs) > 0

\* the legacy key yields a non-empty tab list
legacyYields ==
  /\ lsSession # <<>>
  /\ JSONvalid(lsSession)
  /\ Len(JSONparse(lsSession).tabs) > 0

\* the Tab Store holds exactly one tab, which is fresh, empty, not dirty,
\* untitled and active, and the editing surface shows its empty text
oneFreshTab(ts, active, v) ==
  /\ Len(ts) = 1
  /\ ts[1].id = active
  /\ ts[1].filePath = NoPath
  /\ ts[1].content = ""
  /\ ts[1].lastSavedContent = ""
  /\ ~ts[1].isDirty
  /\ v.doc = ""

\* C22: when neither the primary store nor the legacy key yields a non-empty
\* tab list (absent, read failure, unparsable legacy data, empty tab list),
\* restoreSession reports no session and raises nothing, and startup leaves
\* the Tab Store with exactly one tab: fresh, empty, not dirty, untitled and
\* active.
C22_NoSessionOneFreshTab ==
  [][\A readOk \in BOOLEAN :
       (StartupRestore(readOk) /\ ~primaryYields(readOk) /\ ~legacyYields) =>
         /\ bootLog'.src = "none"
         /\ ~op'.threw
         /\ oneFreshTab(tabs', activeTabId', view')]_vars

\* ------------------------------------------------------------------------
\* C30
\* ------------------------------------------------------------------------
\* the step runs a handler that sets isTabSwitching around its change of the
\* editor: restoreSession, activateTab (also at the end of handleNew, of the
\* file-opened listener and of handleOpen), the reuse branch of handleOpen
switchStep == op'.name \in {"restore", "activate", "new", "open", "fileOpened"}

\* the step is a document change outside a switch
editStep == op'.name = "edit"

\* every tab that the step keeps has the isDirty it had
dirtyKept(keep) ==
  \A i \in 1..Len(tabs) : \A j \in 1..Len(tabs') :
    (tabs[i].id = tabs'[j].id /\ tabs[i].id \in keep)
      => tabs'[j].isDirty = tabs[i].isDirty

\* C30: a step that changes the document while isTabSwitching is set marks
\* no tab dirty (every tab keeps its isDirty, a restored tab has the stored
\* one, a created tab is clean) and the update starts no render timer: the
\* preview timer is never armed in such a step, and the diff timer only by
\* the handler's own scheduleDiffRender in diff mode.  A document change
\* outside a switch leaves the active tab dirty, changes no other tab's
\* isDirty, and re-renders the tab bar iff the active tab was clean.
C30_SwitchMarksNothingDirty ==
  [][/\ switchStep =>
          /\ dirtyKept(idsOf(tabs))
          /\ \A j \in 1..Len(tabs') :
               tabs'[j].id \notin idsOf(tabs) =>
                 tabs'[j].isDirty =
                   (op'.name = "restore" /\ idb # <<>> /\ idb[1].tabs[j].isDirty)
          /\ <<"armed", "preview">> \notin fx'
          /\ <<"armed", "diff">> \in fx' => inDiffMode(Pane)
     /\ editStep =>
          /\ idsOf(tabs') = idsOf(tabs)
          /\ activeTabId' = activeTabId
          /\ findTab(tabs', activeTabId').isDirty
          /\ dirtyKept(idsOf(tabs) \ {activeTabId})
          /\ (<<"rendered", "tabBar">> \in fx') <=> ~findTab(tabs, activeTabId).isDirty]_vars

\* handleOpen has loaded a file into the empty tab: the text is in the
\* editor, the tab is clean, only the session save timer was armed
C30_Witness ==
  /\ op.name = "open"
  /\ Len(tabs) = 1
  /\ tabs[1].filePath = "/p"
  /\ view.doc = "x"
  /\ ~tabs[1].isDirty
  /\ rightPaneContent = "preview"
  /\ <<"armed", "save">> \in fx
  /\ <<"rendered", "preview">> \in fx

\* ------------------------------------------------------------------------
\* C33
\* ------------------------------------------------------------------------
\* the tab at position i is in the store after the step, with its text
survivesStep(i) ==
  \E j \in 1..Len(tabs') :
    /\ tabs'[j].id = tabs[i].id
    /\ textAt(j)' = textAt(i)

\* C33: a closeTab(id) that completes removes only the tab with that id:
\* every other tab is in the store after the step, with its text, whatever
\* ran while the call was suspended at the confirmation.
C33_CloseRemovesOnlyItsTab ==
  [][closeCompletes =>
       \A i \in 1..Len(tabs) : tabs[i].id # op'.id => survivesStep(i)]_vars

\* ------------------------------------------------------------------------
\* C38
\* ------------------------------------------------------------------------
\* the step is startup() resuming from the session read
sessionReadReturns == phase = "restoring" /\ phase' = "pendingFile"

\* the step is startup() running to its end
startupCompletes == phase = "pendingFile" /\ phase' = "running"

\* the editing surface holds the text of the tab that activeTabId names; no
\* edit is possible before startup has completed, so that text is the
\* content the tab was created or restored with
editorShowsActive(ts, active, v) ==
  /\ hasTab(ts, active)
  /\ v.doc = findTab(ts, active).content

\* C38: when startup completes the editing surface holds the text of the tab
\* named by activeTabId, and a tab that a file-opened event created while
\* startup was waiting for the session read (the only tabs there can be at
\* that point) is still in the Tab Store when the read returns.
C38_StartupKeepsOpenedFile ==
  [][/\ sessionReadReturns => \A i \in 1..Len(tabs) : survivesStep(i)
     /\ startupCompletes => editorShowsActive(tabs', activeTabId', view')]_vars


\* ------------------------------------------------------------------------
\* C35
\* ------------------------------------------------------------------------
\* one saveSession of the run before this launch wrote a snapshot, and the
\* application was quit (its settings were not reset)
oneSaveBefore == restarts = 1 /\ writes = 1 /\ op.name = "relaunch"

\* the snapshot that the most recent successful saveSession wrote: into the
\* primary store when savedStore records it, else into the fallback store
lastSavedSnapshot == IF savedStore # <<>> THEN idb ELSE lsOrigin

\* C35: restoreSession, when its read of the primary store works, takes the
\* snapshot of the most recent saveSession that succeeded in either store;
\* it does not take an older primary snapshot when a later save, whose
\* primary write failed, put a newer one into the fallback store.
C35_RestoresLatestSave ==
  [][(oneSaveBefore /\ StartupRestore(TRUE)) =>
       bootLog'.data = lastSavedSnapshot]_vars

\* ------------------------------------------------------------------------
\* C32
\* ------------------------------------------------------------------------
\* the step is an activateTab that makes another tab of the store active
activatesOther ==
  /\ op'.name = "activate"
  /\ activeTabId' # activeTabId
  /\ hasTab(tabs, activeTabId')

\* the tab that the step activates, as it was before the step
activated == findTab(tabs, activeTabId')

\* C32: activateTab of a tab that holds no editing state (never shown, or
\* evicted) gives the editing surface the tab's content as text and the
\* tab's saved selectionMain as selection, so that eviction followed by
\* re-activation gives back the text and the selection the tab had.  (The
\* scroll position is set from tab.scrollTop by a frame callback and is not
\* part of the editor state.)
C32_HydrationRestoresSelection ==
  [][(activatesOther /\ activated.editorState.null) =>
       /\ view'.doc = OrEmpty(activated.content)
       /\ view'.selection = activated.selectionMain]_vars

\* ------------------------------------------------------------------------
\* C34
\* ------------------------------------------------------------------------
\* C34: in every reachable state a tab whose isDirty is false has a current
\* text equal to its lastSavedContent, whatever ran while a handleSave or
\* handleSaveAs call was suspended.
C34_CleanTabMatchesSaved ==
  \A i \in 1..Len(tabs) :
    ~tabs[i].isDirty => textAt(i) = tabs[i].lastSavedContent

\* ------------------------------------------------------------------------
\* C36
\* ------------------------------------------------------------------------
\* C36: no two open tabs have the same non-null filePath: opening a file
\* that is already open activates its tab, and no other operation, Save As
\* included, gives a tab the path of another open tab.
C36_FilePathsAreUnique ==
  \A i \in 1..Len(tabs) : \A j \in 1..Len(tabs) :
    (i # j /\ tabs[i].filePath # NoPath) => tabs[i].filePath # tabs[j].filePath

\* ------------------------------------------------------------------------
\* C40
\* ------------------------------------------------------------------------
\* renderDiff has run and found changes
diffRendered == dpc = "done" /\ container # <<>> /\ container # <<EmptyRow>>

\* where the hunk headers are among the children of the container
headerPositions == {i \in 1..Len(container) : container[i].kind = "header"}

\* the position of the header of the h-th hunk
headerOf(h) ==
  CHOOSE i \in headerPositions : Cardinality({j \in headerPositions : j < i}) = h - 1

\* the count that the collapsed separator in front of the h-th hunk shows;
\* 0 when there is no separator
separatorCount(h) ==
  LET i == headerOf(h)
  IN IF i > 1 /\ container[i - 1].kind = "collapse" THEN container[i - 1].count ELSE 0

\* the unchanged old lines between the h-th hunk and the next one: the equal
\* ops between the op ranges of the two hunks
unchangedBetween(h) ==
  LET ranges == hunkRanges(ops, DIFF_CONTEXT)
  IN Cardinality({i \in (ranges[h][2] + 1)..(ranges[h + 1][1] - 1) : ops[i + 1].type = "equal"})

\* the lines of the given types in the h-th hunk
linesOfTypes(h, types) ==
  Cardinality({i \in 1..Len(hunks[h].lines) : hunks[h].lines[i].type \in types})

\* C40: in the output of renderDiff there is one header per hunk; the
\* collapsed separator between two consecutive hunks shows the number of
\* unchanged old lines between them, and each hunk header shows as old count
\* the hunk's context and remove lines and as new count its context and add
\* lines.
C40_SeparatorsAndHeaders ==
  diffRendered =>
    /\ Cardinality(headerPositions) = Len(hunks)
    /\ \A h \in 1..(Len(hunks) - 1) :
         separatorCount(h + 1) = unchangedBetween(h)
    /\ \A h \in 1..Len(hunks) :
         /\ container[headerOf(h)].oldCount = linesOfTypes(h, {"context", "remove"})
         /\ container[headerOf(h)].newCount = linesOfTypes(h, {"context", "add"})
         /\ container[headerOf(h)].oldStart = hunks[h].oldStart
         /\ container[headerOf(h)].newStart = hunks[h].newStart

\* three hunks with two separators, one of them for a single line
C40_Witness ==
  /\ diffRendered
  /\ Len(hunks) = 3
  /\ separatorCount(2) = 1
  /\ separatorCount(3) > 1
  /\ container[headerOf(2)].oldCount # container[headerOf(2)].newCount

\* ------------------------------------------------------------------------
\* C39
\* ------------------------------------------------------------------------
\* every applyView call has run to its end (startup has made the first one)
applyViewsDone ==
  /\ phase = "running"
  /\ \A k \in 1..Len(importWaiters) : importWaiters[k].kind # "applyView"

\* what the right pane displays is what the view asks for: nothing for
\* 'single', the preview element for split/preview, the diff element with a
\* rendered diff for split/diff
paneMatches(layout, rightPane) ==
  IF layout = "single" THEN ~display.pane
  ELSE IF rightPane = "preview"
    THEN display.pane /\ display.preview /\ ~display.diff
  ELSE display.pane /\ display.diff /\ ~display.preview /\ diffShown.kind = "diff"

\* C39: once every pending applyView call has completed, the displayed pane
\* matches the view that was requested last, also when a second applyView
\* started while an earlier one was suspended at its import.
C39_PaneMatchesLastView ==
  applyViewsDone => paneMatches(layoutMode, rightPaneContent)

\* ------------------------------------------------------------------------
\* C37
\* ------------------------------------------------------------------------
\* the diff pane is the visible pane
diffPaneVisible ==
  /\ phase = "running"
  /\ inDiffMode(Pane)
  /\ display.pane /\ display.diff

\* no diff render is pending (the debounce timer) or in flight (a callback
\* or an applyView suspended at its import)
noDiffRenderDue ==
  /\ \A p \in pendingFires : p.kind # "diff"
  /\ importWaiters = <<>>

\* C37: whenever the diff pane is the visible pane and no diff render is
\* pending or in flight, the diff it shows is the diff of the active tab's
\* current text against that tab's lastSavedContent; in particular it shows
\* no changes after a successful save of the active tab.
C37_DiffShowsCurrentAgainstSaved ==
  (diffPaneVisible /\ noDiffRenderDue /\ hasTab(tabs, activeTabId)) =>
    /\ diffShown.kind = "diff"
    /\ diffShown.cur = view.doc
    /\ diffShown.base = getDiffBase(findTab(tabs, activeTabId))

\* ------------------------------------------------------------------------
\* C31
\* ------------------------------------------------------------------------
\* the primary store holds the snapshot of the Tab Store as it is now
storeInSync == idb # <<>> /\ idb[1] = snapshotAt(0)

\* the model lets no further write through
writesUsedUp == writes = MaxWritesLive

\* C31: every operation that changes the Tab Store, the creation of the
\* startup tab and the consumption of the legacy key included, leaves the
\* session-save timer pending; so, the timer being fair and the store taking
\* the write, whenever the application runs the primary store sooner or
\* later holds the snapshot of the Tab Store as it then is.
C31_StoreCatchesUp ==
  (phase = "running" /\ ~writesUsedUp) ~> (storeInSync \/ writesUsedUp)

\* the same for the states in which the timer is pending
C31_PendingTimerSaves ==
  (phase = "running" /\ sessionSavePending /\ ~writesUsedUp) ~> (storeInSync \/ writesUsedUp)
====
